---- MODULE Spec2Model ----
(***************************************************************************)
(* cryTemplate: the tokenizing template parser (tplParse), the test        *)
(* expression parser (tplParseTest), the scope resolver (tplResolveKey)    *)
(* and the tree-walking renderer (tplRenderNodes), as a state machine of   *)
(* one renderTemplate(tpl, ...data) call.                                  *)
(*                                                                         *)
(* Strings of the program are sequences of one-character strings; indices  *)
(* into them are 0-based as in the source (At, Slice, IndexOf).            *)
(***************************************************************************)
EXTENDS Integers, Sequences, FiniteSets, TLC

VARIABLES tpl, data, pc, idx, heap, nodesStack, controlStack, out, getterCalls, raised,
          templateFilterRegistry

vars == <<tpl, data, pc, idx, heap, nodesStack, controlStack, out, getterCalls, raised,
          templateFilterRegistry>>

(***************************************************************************)
(* Characters and the regular-expression classes the source uses.          *)
(***************************************************************************)
LowerSeq == <<"a","b","c","d","e","f","g","h","i","j","k","l","m",
              "n","o","p","q","r","s","t","u","v","w","x","y","z">>

UpperSeq == <<"A","B","C","D","E","F","G","H","I","J","K","L","M",
              "N","O","P","Q","R","S","T","U","V","W","X","Y","Z">>

DigitSeq == <<"0","1","2","3","4","5","6","7","8","9">>

Range(s) == {s[i] : i \in 1..Len(s)}

LowerSet == Range(LowerSeq)

UpperSet == Range(UpperSeq)

DigitSet == Range(DigitSeq)

\* \s of the regular expressions, String.prototype.trim
IsWs(c) == c \in {" ", "\t", "\n", "\r"}

\* \w
IsWord(c) == c \in LowerSet \cup UpperSet \cup DigitSet \cup {"_"}

\* [A-Za-z_]
IsIdentStart(c) == c \in LowerSet \cup UpperSet \cup {"_"}

IsDigit(c) == c \in DigitSet

\* "." of a regular expression: any character but a line terminator
IsDot(c) == c \notin {"\n", "\r"}

PosIn(s, c) == CHOOSE i \in 1..Len(s) : s[i] = c

DigitVal(c) == PosIn(DigitSeq, c) - 1

\* String.prototype.toLowerCase / the i flag, on one character
LowerCh(c) == IF c \in UpperSet THEN LowerSeq[PosIn(UpperSeq, c)] ELSE c

UpperCh(c) == IF c \in LowerSet THEN UpperSeq[PosIn(LowerSeq, c)] ELSE c

ToLower(s) == [i \in 1..Len(s) |-> LowerCh(s[i])]

ToUpper(s) == [i \in 1..Len(s) |-> UpperCh(s[i])]

(***************************************************************************)
(* String primitives of the host language, 0-based.                        *)
(***************************************************************************)
Min(a, b) == IF a < b THEN a ELSE b

Max(a, b) == IF a > b THEN a ELSE b

\* s[i]; "" stands for undefined (an index outside the string)
At(s, i) == IF i >= 0 /\ i < Len(s) THEN s[i + 1] ELSE ""

\* s.slice(a, b) for 0 <= a
Slice(s, a, b) == IF Min(b, Len(s)) <= a THEN <<>> ELSE SubSeq(s, a + 1, Min(b, Len(s)))

\* s.slice(a)
SliceFrom(s, a) == Slice(s, a, Len(s))

StartsWithAt(s, pat, i) == /\ i + Len(pat) <= Len(s)
                           /\ \A k \in 1..Len(pat) : s[i + k] = pat[k]

\* s.indexOf(pat, from); -1 when absent
IndexOf(s, pat, from) ==
  LET hits == {i \in from..(Len(s) - Len(pat)) : StartsWithAt(s, pat, i)}
  IN IF hits = {} THEN -1 ELSE CHOOSE i \in hits : \A j \in hits : i <= j

\* number of leading / trailing characters of s that satisfy the class
RECURSIVE LeadWs(_, _)
LeadWs(s, i) == IF i < Len(s) /\ IsWs(s[i + 1]) THEN LeadWs(s, i + 1) ELSE i

RECURSIVE TrailWs(_, _)
TrailWs(s, n) == IF n > 0 /\ IsWs(s[n]) THEN TrailWs(s, n - 1) ELSE n

\* s.trim()
Trim(s) == LET a == LeadWs(s, 0) IN IF a >= Len(s) THEN <<>> ELSE SubSeq(s, a + 1, TrailWs(s, Len(s)))

\* s.replace(/\s+$/g, '')
TrimEndAll(s) == SubSeq(s, 1, TrailWs(s, Len(s)))

RECURSIVE TrailWsNoNl(_, _)
TrailWsNoNl(s, n) == IF n > 0 /\ IsWs(s[n]) /\ s[n] \notin {"\n", "\r"} THEN TrailWsNoNl(s, n - 1) ELSE n

\* s.replace(/[^\S\r\n]+$/g, '')
TrimEndNoNewlines(s) == SubSeq(s, 1, TrailWsNoNl(s, Len(s)))

\* /^<word>/i at offset 0: the literal word, letter case ignored
StartsWithCI(s, word) == /\ Len(word) <= Len(s)
                         /\ \A k \in 1..Len(word) : LowerCh(s[k]) = word[k]

EqualsCI(s, word) == Len(s) = Len(word) /\ StartsWithCI(s, word)

(***************************************************************************)
(* Values of the data the template is rendered against.  A number is the   *)
(* exact decimal m / 10^e, kept normalised (m not divisible by 10 unless   *)
(* e = 0).  An object is its own properties in insertion order and the     *)
(* properties it inherits from its prototype chain (above Object.prototype)*)
(* ; a property is a data property or an accessor, v being the value held  *)
(* or the value the getter returns.  The data holds no function values.    *)
(***************************************************************************)
Undef == [t |-> "undef"]

Null == [t |-> "null"]

NaN == [t |-> "nan"]

Bool(b) == [t |-> "bool", b |-> b]

Str(s) == [t |-> "str", s |-> s]

Arr(items) == [t |-> "arr", items |-> items]

Obj(props, proto) == [t |-> "obj", props |-> props, proto |-> proto]

Prop(k, v) == [k |-> k, acc |-> FALSE, get |-> FALSE, enum |-> TRUE, v |-> v]

Getter(k, v) == [k |-> k, acc |-> TRUE, get |-> TRUE, enum |-> TRUE, v |-> v]

RECURSIVE Pow10(_)
Pow10(e) == IF e = 0 THEN 1 ELSE 10 * Pow10(e - 1)

RECURSIVE NormDec(_, _)
NormDec(m, e) == IF e > 0 /\ m % 10 = 0 THEN NormDec(m \div 10, e - 1) ELSE [t |-> "num", m |-> m, e |-> e]

Num(k) == [t |-> "num", m |-> k, e |-> 0]

Abs(k) == IF k < 0 THEN -k ELSE k

RECURSIVE DigitsVal(_, _)
DigitsVal(ds, acc) == IF ds = <<>> THEN acc ELSE DigitsVal(Tail(ds), 10 * acc + DigitVal(Head(ds)))

RECURSIVE NatDigits(_)
NatDigits(n) == IF n < 10 THEN <<DigitSeq[n + 1]>> ELSE NatDigits(n \div 10) \o <<DigitSeq[(n % 10) + 1]>>

RECURSIVE PadZeros(_, _)
PadZeros(ds, w) == IF Len(ds) >= w THEN ds ELSE PadZeros(<<"0">> \o ds, w)

\* String(n) for a number (decimal notation)
NumberToString(n) ==
  LET a == Abs(n.m)
      p == Pow10(n.e)
  IN (IF n.m < 0 THEN <<"-">> ELSE <<>>) \o NatDigits(a \div p)
     \o (IF n.e = 0 THEN <<>> ELSE <<".">> \o PadZeros(NatDigits(a % p), n.e))

\* number of leading digits of s from offset i
RECURSIVE DigitRun(_, _)
DigitRun(s, i) == IF i < Len(s) /\ IsDigit(s[i + 1]) THEN DigitRun(s, i + 1) ELSE i

\* length of the match of /^[+-]?\d+(?:\.\d+)?/ at the start of s; 0 when none
NumPrefixLen(s) ==
  LET a == IF At(s, 0) \in {"+", "-"} THEN 1 ELSE 0
      b == DigitRun(s, a)
      c == IF At(s, b) = "." THEN DigitRun(s, b + 1) ELSE b
  IN IF b = a THEN 0 ELSE IF c > b + 1 THEN c ELSE b

\* /^[+-]?\d+(?:\.\d+)?$/
IsDecimal(s) == Len(s) > 0 /\ NumPrefixLen(s) = Len(s)

\* Number(s) for s matching the decimal pattern
DecimalValue(s) ==
  LET a == IF At(s, 0) \in {"+", "-"} THEN 1 ELSE 0
      b == DigitRun(s, a)
      ip == DigitsVal(Slice(s, a, b), 0)
      fr == IF b < Len(s) THEN SliceFrom(s, b + 1) ELSE <<>>
      mag == DigitsVal(fr, ip)
  IN NormDec(IF At(s, 0) = "-" THEN -mag ELSE mag, Len(fr))

\* Number(s) for a string: '' and blanks are 0, the decimal forms their value,
\* anything else NaN (exponents, hex and Infinity do not occur in the data sets)
StringToNumber(s) ==
  LET u == Trim(s)
  IN IF u = <<>> THEN Num(0) ELSE IF IsDecimal(u) THEN DecimalValue(u) ELSE NaN

IsObject(v) == v.t \in {"arr", "obj"}

OwnAt(o, k) == {i \in 1..Len(o.props) : o.props[i].k = k}

ProtoAt(o, k) == {i \in 1..Len(o.proto) : o.proto[i].k = k}

\* canonical array index: "0" or digits without a leading zero
IsIndexKey(k) == /\ Len(k) > 0
                 /\ \A i \in 1..Len(k) : IsDigit(k[i])
                 /\ (Len(k) = 1 \/ k[1] # "0")

LengthKey == <<"l","e","n","g","t","h">>

\* Object.prototype.hasOwnProperty.call(rec, seg)
HasOwnProperty(o, k) ==
  IF o.t = "arr"
    THEN k = LengthKey \/ (IsIndexKey(k) /\ DigitsVal(k, 0) < Len(o.items))
    ELSE OwnAt(o, k) # {}

\* Object.getOwnPropertyDescriptor(rec, seg), for a key rec owns
GetOwnPropertyDescriptor(o, k) ==
  IF o.t = "arr"
    THEN IF k = LengthKey THEN Prop(k, Num(Len(o.items)))
         ELSE Prop(k, o.items[DigitsVal(k, 0) + 1])
    ELSE o.props[CHOOSE i \in OwnAt(o, k) : TRUE]

\* Object.keys(v): the own enumerable keys, in order
RECURSIVE EnumProps(_)
EnumProps(ps) ==
  IF ps = <<>> THEN <<>>
  ELSE (IF Head(ps).enum THEN <<Head(ps)>> ELSE <<>>) \o EnumProps(Tail(ps))

ObjectKeysLen(v) == Len(EnumProps(v.props))

(***************************************************************************)
(* String(v) and Number(v).  Converting an object runs ToPrimitive: a      *)
(* property named toString or valueOf that the object owns or inherits     *)
(* shadows the built-in method, is read (an accessor's getter runs) and,   *)
(* holding no function, leaves no way to a primitive: TypeError.           *)
(* Results carry the getter calls made (gets) and whether it threw (err).  *)
(***************************************************************************)
ToStringKey == <<"t","o","S","t","r","i","n","g">>

ValueOfKey == <<"v","a","l","u","e","O","f">>

ObjectObject == <<"[","o","b","j","e","c","t"," ","O","b","j","e","c","t","]">>

\* the property a read of o[k] finds: own first, then inherited; <<>> when none
PropOf(o, k) ==
  IF OwnAt(o, k) # {} THEN <<o.props[CHOOSE i \in OwnAt(o, k) : TRUE]>>
  ELSE IF ProtoAt(o, k) # {}
    THEN <<o.proto[CHOOSE i \in ProtoAt(o, k) : \A j \in ProtoAt(o, k) : i <= j]>>
    ELSE <<>>

GetterRuns(ps) == IF ps # <<>> /\ ps[1].acc /\ ps[1].get THEN 1 ELSE 0

\* ToPrimitive of a plain object: "[object Object]" unless toString is shadowed;
\* hint "number" reads valueOf first, hint "string" reads it only after toString
ObjToPrimitive(o, hint) ==
  LET ts == PropOf(o, ToStringKey)
      vo == PropOf(o, ValueOfKey)
  IN IF ts = <<>>
       THEN [s |-> ObjectObject, gets |-> IF hint = "number" THEN GetterRuns(vo) ELSE 0,
             err |-> FALSE]
       ELSE [s |-> <<>>, gets |-> GetterRuns(ts) + GetterRuns(vo), err |-> TRUE]

\* the element string h, a comma when more follow, then the rest r
JoinNext(h, more, r) ==
  IF h.err THEN h
  ELSE [s |-> h.s \o (IF more THEN <<",">> ELSE <<>>) \o r.s, gets |-> h.gets + r.gets, err |-> r.err]

RECURSIVE JsString(_)
RECURSIVE JoinItems(_, _)
\* Array.prototype.join(','): undefined and null elements give ''
JoinItems(items, i) ==
  IF i > Len(items) THEN [s |-> <<>>, gets |-> 0, err |-> FALSE]
  ELSE JoinNext(IF items[i].t \in {"undef", "null"} THEN [s |-> <<>>, gets |-> 0, err |-> FALSE]
                ELSE JsString(items[i]),
                i < Len(items), JoinItems(items, i + 1))

\* String(v)
JsString(v) ==
  CASE v.t = "str" -> [s |-> v.s, gets |-> 0, err |-> FALSE]
    [] v.t = "undef" -> [s |-> <<"u","n","d","e","f","i","n","e","d">>, gets |-> 0, err |-> FALSE]
    [] v.t = "null" -> [s |-> <<"n","u","l","l">>, gets |-> 0, err |-> FALSE]
    [] v.t = "bool" -> [s |-> IF v.b THEN <<"t","r","u","e">> ELSE <<"f","a","l","s","e">>,
                        gets |-> 0, err |-> FALSE]
    [] v.t = "num" -> [s |-> NumberToString(v), gets |-> 0, err |-> FALSE]
    [] v.t = "nan" -> [s |-> <<"N","a","N">>, gets |-> 0, err |-> FALSE]
    [] v.t = "arr" -> JoinItems(v.items, 1)
    [] v.t = "obj" -> ObjToPrimitive(v, "string")

\* Number of the primitive ToPrimitive gave
PrimToNumber(p) == [n |-> IF p.err THEN NaN ELSE StringToNumber(p.s), gets |-> p.gets, err |-> p.err]

\* Number(v): n is a number value or NaN
JsNumber(v) ==
  CASE v.t \in {"num", "nan"} -> [n |-> v, gets |-> 0, err |-> FALSE]
    [] v.t = "undef" -> [n |-> NaN, gets |-> 0, err |-> FALSE]
    [] v.t = "null" -> [n |-> Num(0), gets |-> 0, err |-> FALSE]
    [] v.t = "bool" -> [n |-> IF v.b THEN Num(1) ELSE Num(0), gets |-> 0, err |-> FALSE]
    [] v.t = "str" -> [n |-> StringToNumber(v.s), gets |-> 0, err |-> FALSE]
    [] v.t = "arr" -> PrimToNumber(JsString(v))
    [] v.t = "obj" -> PrimToNumber(ObjToPrimitive(v, "number"))

\* Boolean(v)
JsBoolean(v) ==
  CASE v.t \in {"undef", "null", "nan"} -> FALSE
    [] v.t = "bool" -> v.b
    [] v.t = "num" -> v.m # 0
    [] v.t = "str" -> v.s # <<>>
    [] v.t \in {"arr", "obj"} -> TRUE

(***************************************************************************)
(* template-runtime: tplResolveFrom, tplResolveKey, tplTruthy, tplEmptyish *)
(***************************************************************************)
\* key.split('.')
RECURSIVE SplitDots(_, _)
SplitDots(s, cur) ==
  IF s = <<>> THEN <<cur>>
  ELSE IF Head(s) = "." THEN <<cur>> \o SplitDots(Tail(s), <<>>)
  ELSE SplitDots(Tail(s), Append(cur, Head(s)))

\* the resolver as it stood before own-property reads: seg in cur, cur[seg]
RECURSIVE tplResolveFromAnyProperty(_, _)
tplResolveFromAnyProperty(cur, path) ==
  IF path = <<>> THEN cur
  ELSE IF ~IsObject(cur) THEN Undef
  ELSE IF cur.t = "arr"
    THEN IF HasOwnProperty(cur, Head(path))
           THEN tplResolveFromAnyProperty(GetOwnPropertyDescriptor(cur, Head(path)).v, Tail(path))
           ELSE Undef
  ELSE IF PropOf(cur, Head(path)) = <<>> THEN Undef
  ELSE tplResolveFromAnyProperty(PropOf(cur, Head(path))[1].v, Tail(path))

RECURSIVE tplResolveFrom(_, _)
tplResolveFrom(cur, path) ==
  IF path = <<>> THEN cur
  ELSE IF ~IsObject(cur) THEN Undef
  ELSE IF ~HasOwnProperty(cur, Head(path)) THEN Undef
  ELSE LET desc == GetOwnPropertyDescriptor(cur, Head(path))
       IN IF desc.acc THEN Undef ELSE tplResolveFrom(desc.v, Tail(path))

\* a resolver that goes on to the next frame when the whole path fails in one
RECURSIVE ResolveInFramesByWholePath(_, _, _)
ResolveInFramesByWholePath(scopes, parts, i) ==
  IF i < 1
    THEN tplResolveFrom(IF scopes = <<>> THEN Undef ELSE scopes[1], parts)
  ELSE IF tplResolveFrom(scopes[i], parts) # Undef
    THEN tplResolveFrom(scopes[i], parts)
  ELSE ResolveInFramesByWholePath(scopes, parts, i - 1)

RECURSIVE ResolveInFrames(_, _, _)
ResolveInFrames(scopes, parts, i) ==
  IF i < 1
    THEN tplResolveFrom(IF scopes = <<>> THEN Undef ELSE scopes[1], parts)
  ELSE IF HasOwnProperty(scopes[i], parts[1])
          /\ ~GetOwnPropertyDescriptor(scopes[i], parts[1]).acc
    THEN tplResolveFrom(GetOwnPropertyDescriptor(scopes[i], parts[1]).v, Tail(parts))
  ELSE ResolveInFrames(scopes, parts, i - 1)

tplResolveKey(scopes, key) == ResolveInFrames(scopes, SplitDots(key, <<>>), Len(scopes))

\* the truthiness of JavaScript, in which every array and record is true
tplTruthyAsBoolean(v) == JsBoolean(v)

tplTruthy(v) ==
  IF v.t = "arr" THEN Len(v.items) > 0
  ELSE IF v.t = "obj" THEN ObjectKeysLen(v) > 0
  ELSE JsBoolean(v)

tplEmptyish(v) ==
  IF v.t \in {"undef", "null"} THEN TRUE
  ELSE IF v.t = "str" THEN Len(v.s) = 0
  ELSE IF v.t = "arr" THEN Len(v.items) = 0
  ELSE IF v.t = "obj" THEN ObjectKeysLen(v) = 0
  ELSE FALSE

(***************************************************************************)
(* html-utils: escapeHtml                                                  *)
(***************************************************************************)
EscapeMap(ch) ==
  CASE ch = "&" -> <<"&","a","m","p",";">>
    [] ch = "<" -> <<"&","l","t",";">>
    [] ch = ">" -> <<"&","g","t",";">>
    [] ch = "\"" -> <<"&","q","u","o","t",";">>
    [] ch = "'" -> <<"&","#","3","9",";">>
    [] OTHER -> <<ch>>

\* an escaper that leaves quotes alone: only the markup characters are mapped
RECURSIVE escapeHtmlMarkupOnly(_)
escapeHtmlMarkupOnly(str) ==
  IF str = <<>> THEN <<>>
  ELSE (IF Head(str) \in {"\"", "'"} THEN <<Head(str)>> ELSE EscapeMap(Head(str)))
       \o escapeHtmlMarkupOnly(Tail(str))

RECURSIVE escapeHtml(_)
escapeHtml(str) == IF str = <<>> THEN <<>> ELSE EscapeMap(Head(str)) \o escapeHtml(Tail(str))

\* the entities of /&(amp|lt|gt|quot|apos|#39);/gi with their characters
Entities ==
  << [ent |-> <<"&", "a", "m", "p", ";">>, ch |-> "&"],
     [ent |-> <<"&", "l", "t", ";">>, ch |-> "<"],
     [ent |-> <<"&", "g", "t", ";">>, ch |-> ">"],
     [ent |-> <<"&", "q", "u", "o", "t", ";">>, ch |-> "\""],
     [ent |-> <<"&", "a", "p", "o", "s", ";">>, ch |-> "'"],
     [ent |-> <<"&", "#", "3", "9", ";">>, ch |-> "'"] >>

\* the entities that match at the head of s, whatever their case
EntitiesAt(s) == {k \in 1..Len(Entities) : StartsWithCI(s, Entities[k].ent)}

\* one pass: a matched entity becomes its character and the scan goes on after it
RECURSIVE unescapeHtml(_)
unescapeHtml(str) ==
  IF str = <<>> THEN <<>>
  ELSE IF EntitiesAt(str) = {} THEN <<Head(str)>> \o unescapeHtml(Tail(str))
  ELSE LET e == Entities[CHOOSE k \in EntitiesAt(str) : TRUE]
       IN <<e.ch>> \o unescapeHtml(SliceFrom(str, Len(e.ent)))

(***************************************************************************)
(* template-if: tplParseTest.  The tokenizer is one step per loop          *)
(* iteration (TestTokStep); the recursive-descent parser returns the node  *)
(* (NoTest for null) with the token cursor p it leaves behind.             *)
(***************************************************************************)
NoTest == [type |-> "none"]

NoExpr == [kind |-> "none"]

\* the quoted-literal loop: [inner, i] when it ends
RECURSIVE TestQuoteScan(_, _, _, _)
TestQuoteScan(src, i, quote, inner) ==
  IF i >= Len(src) THEN [inner |-> inner, i |-> i]
  ELSE LET c == src[i + 1]
       IN IF c = "\\" /\ i + 1 < Len(src)
            THEN TestQuoteScan(src, i + 2, quote, Append(inner, src[i + 2]))
          ELSE IF c = quote THEN [inner |-> inner, i |-> i + 1]
          ELSE TestQuoteScan(src, i + 1, quote, Append(inner, c))

\* length of the match of /^[A-Za-z_][\w.]*/ at offset i; 0 when none
RECURSIVE IdentRun(_, _)
IdentRun(s, i) == IF i < Len(s) /\ (IsWord(s[i + 1]) \/ s[i + 1] = ".") THEN IdentRun(s, i + 1) ELSE i

IdentPrefixLen(s, i) == IF i < Len(s) /\ IsIdentStart(s[i + 1]) THEN IdentRun(s, i + 1) - i ELSE 0

\* /^[Nn]ot\b/ at offset i
NotWordAt(src, i) == /\ At(src, i) \in {"N", "n"}
                     /\ At(src, i + 1) = "o"
                     /\ At(src, i + 2) = "t"
                     /\ ~(i + 3 < Len(src) /\ IsWord(src[i + 4]))

\* one iteration of the tokenizer loop at cursor i < src.length:
\* the tokens it pushes and the cursor after it
TestTokStep(src, i) ==
  LET ch == src[i + 1]
      two == Slice(src, i, i + 2)
      rem == SliceFrom(src, i)
      nlen == NumPrefixLen(rem)
      ilen == IdentPrefixLen(src, i)
      word == Slice(src, i, i + ilen)
  IN IF IsWs(ch) THEN [toks |-> <<>>, i |-> i + 1]
     ELSE IF ch = "(" THEN [toks |-> <<[t |-> "lparen"]>>, i |-> i + 1]
     ELSE IF ch = ")" THEN [toks |-> <<[t |-> "rparen"]>>, i |-> i + 1]
     ELSE IF two = <<"&", "&">> THEN [toks |-> <<[t |-> "and"]>>, i |-> i + 2]
     ELSE IF two = <<"|", "|">> THEN [toks |-> <<[t |-> "or"]>>, i |-> i + 2]
     ELSE IF two \in {<<"=", "=">>, <<"!", "=">>, <<">", "=">>, <<"<", "=">>}
       THEN [toks |-> <<[t |-> "comp", v |-> two]>>, i |-> i + 2]
     ELSE IF ch \in {">", "<"} THEN [toks |-> <<[t |-> "comp", v |-> <<ch>>]>>, i |-> i + 1]
     ELSE IF ch = "!" THEN [toks |-> <<[t |-> "bang"]>>, i |-> i + 1]
     ELSE IF NotWordAt(src, i) THEN [toks |-> <<[t |-> "not"]>>, i |-> i + 3]
     ELSE IF ch \in {"\"", "'"}
       THEN LET q == TestQuoteScan(src, i + 1, ch, <<>>)
            IN [toks |-> <<[t |-> "lit", v |-> Str(q.inner)]>>, i |-> q.i]
     ELSE IF nlen > 0
       THEN [toks |-> <<[t |-> "lit", v |-> DecimalValue(Slice(rem, 0, nlen))]>>, i |-> i + nlen]
     ELSE IF ilen > 0
       THEN IF EqualsCI(word, <<"t","r","u","e">>)
              THEN [toks |-> <<[t |-> "lit", v |-> Bool(TRUE)]>>, i |-> i + ilen]
            ELSE IF EqualsCI(word, <<"f","a","l","s","e">>)
              THEN [toks |-> <<[t |-> "lit", v |-> Bool(FALSE)]>>, i |-> i + ilen]
            ELSE IF EqualsCI(word, <<"n","u","l","l">>)
              THEN [toks |-> <<[t |-> "lit", v |-> Null]>>, i |-> i + ilen]
            ELSE [toks |-> <<[t |-> "key", v |-> word]>>, i |-> i + ilen]
     ELSE [toks |-> <<>>, i |-> i + 1]

RECURSIVE TestTokenize(_, _, _)
RECURSIVE TestTokenizeOn(_, _, _)
\* the loop continues after the step r
TestTokenizeOn(src, tokens, r) == TestTokenize(src, r.i, tokens \o r.toks)

TestTokenize(src, i, tokens) ==
  IF i >= Len(src) THEN tokens ELSE TestTokenizeOn(src, tokens, TestTokStep(src, i))

\* tokens[p].t, "" past the end
PeekT(tokens, p) == IF p < Len(tokens) THEN tokens[p + 1].t ELSE ""

parseOperandTok(tokens, p) ==
  IF PeekT(tokens, p) = "lit" THEN [e |-> [kind |-> "literal", value |-> tokens[p + 1].v], p |-> p + 1]
  ELSE IF PeekT(tokens, p) = "key" THEN [e |-> [kind |-> "key", key |-> tokens[p + 1].v], p |-> p + 1]
  ELSE [e |-> NoExpr, p |-> p]

\* the leading run of bang / not tokens
RECURSIVE NegRun(_, _)
NegRun(tokens, p) == IF PeekT(tokens, p) \in {"bang", "not"} THEN NegRun(tokens, p + 1) ELSE p

\* a run of negations that counts as one
WrapNotOnce(node, k) == IF k = 0 THEN node ELSE [type |-> "not", node |-> node]

RECURSIVE WrapNot(_, _)
WrapNot(node, k) == IF k = 0 THEN node ELSE WrapNot([type |-> "not", node |-> node], k - 1)

RECURSIVE parseOr(_, _)
RECURSIVE parseAnd(_, _)
RECURSIVE parseUnary(_, _)
RECURSIVE parseCompare(_, _)
RECURSIVE parsePrimaryBase(_, _)
RECURSIVE AndRest(_, _, _)
RECURSIVE OrRest(_, _, _)
RECURSIVE AndPush(_, _, _)
RECURSIVE OrPush(_, _, _)

\* the truthy node an operand makes; NoTest for none
PrimaryOf(op) ==
  IF op.e.kind = "none" THEN [n |-> NoTest, p |-> op.p]
  ELSE IF op.e.kind = "literal"
    THEN [n |-> [type |-> "truthy-literal", value |-> op.e.value, negated |-> FALSE], p |-> op.p]
  ELSE [n |-> [type |-> "truthy", key |-> op.e.key, negated |-> FALSE], p |-> op.p]

\* if (pk?.t === 'rparen') eat(); return e
CloseParen(tokens, e) == [n |-> e.n, p |-> IF PeekT(tokens, e.p) = "rparen" THEN e.p + 1 ELSE e.p]

parsePrimaryBase(tokens, p) ==
  IF p >= Len(tokens) THEN [n |-> NoTest, p |-> p]
  ELSE IF PeekT(tokens, p) = "lparen" THEN CloseParen(tokens, parseOr(tokens, p + 1))
  ELSE PrimaryOf(parseOperandTok(tokens, p))

\* a compare step that takes only a key as its left operand
CompareOfKeysOnly(leftPrim, opTok, rightOp) ==
  IF rightOp.e.kind = "none" THEN [n |-> NoTest, p |-> rightOp.p]
  ELSE IF leftPrim.n.type = "truthy"
    THEN [n |-> [type |-> "compare", left |-> [kind |-> "key", key |-> leftPrim.n.key],
                 op |-> opTok.v, right |-> rightOp.e, negated |-> FALSE], p |-> rightOp.p]
  ELSE [n |-> leftPrim.n, p |-> rightOp.p]

\* the compare node of leftPrim, the operator token and the right operand
CompareOf(leftPrim, opTok, rightOp) ==
  IF rightOp.e.kind = "none" THEN [n |-> NoTest, p |-> rightOp.p]
  ELSE IF leftPrim.n.type = "truthy-literal"
    THEN [n |-> [type |-> "compare", left |-> [kind |-> "literal", value |-> leftPrim.n.value],
                 op |-> opTok.v, right |-> rightOp.e, negated |-> FALSE], p |-> rightOp.p]
  ELSE IF leftPrim.n.type = "truthy"
    THEN [n |-> [type |-> "compare", left |-> [kind |-> "key", key |-> leftPrim.n.key],
                 op |-> opTok.v, right |-> rightOp.e, negated |-> FALSE], p |-> rightOp.p]
  ELSE [n |-> leftPrim.n, p |-> rightOp.p]

\* parseCompare once leftPrim is parsed
CompareAfter(tokens, leftPrim) ==
  IF leftPrim.n.type = "none" THEN leftPrim
  ELSE IF PeekT(tokens, leftPrim.p) = "comp"
    THEN CompareOf(leftPrim, tokens[leftPrim.p + 1], parseOperandTok(tokens, leftPrim.p + 1))
  ELSE leftPrim

parseCompare(tokens, p) == CompareAfter(tokens, parsePrimaryBase(tokens, p))

\* parseUnary once negateCount and nodePrim are known
UnaryOf(nodePrim, negateCount) ==
  IF nodePrim.n.type = "none" THEN nodePrim
  ELSE [n |-> WrapNot(nodePrim.n, negateCount), p |-> nodePrim.p]

\* negateCount of the run of bang / not tokens from p to q
UnaryFrom(tokens, p, q) == UnaryOf(parseCompare(tokens, q), q - p)

parseUnary(tokens, p) == UnaryFrom(tokens, p, NegRun(tokens, p))

\* one turn of the while loop of parseAnd, nx being the operand after the operator
AndPush(tokens, nodes, nx) ==
  IF nx.n.type = "none" THEN [nodes |-> nodes, p |-> nx.p]
  ELSE AndRest(tokens, nx.p, Append(nodes, nx.n))

\* the while loop of parseAnd: nodes collected so far, cursor p
AndRest(tokens, p, nodes) ==
  IF PeekT(tokens, p) = "and" THEN AndPush(tokens, nodes, parseUnary(tokens, p + 1))
  ELSE [nodes |-> nodes, p |-> p]

\* if (nodes.length === 1) return first; return { type, nodes }
Collected(type, r) ==
  IF Len(r.nodes) = 1 THEN [n |-> r.nodes[1], p |-> r.p]
  ELSE [n |-> [type |-> type, nodes |-> r.nodes], p |-> r.p]

AndAfter(tokens, first) ==
  IF first.n.type = "none" THEN first
  ELSE Collected("and", AndRest(tokens, first.p, <<first.n>>))

parseAnd(tokens, p) == AndAfter(tokens, parseUnary(tokens, p))

OrPush(tokens, nodes, nx) ==
  IF nx.n.type = "none" THEN [nodes |-> nodes, p |-> nx.p]
  ELSE OrRest(tokens, nx.p, Append(nodes, nx.n))

\* the while loop of parseOr
OrRest(tokens, p, nodes) ==
  IF PeekT(tokens, p) = "or" THEN OrPush(tokens, nodes, parseAnd(tokens, p + 1))
  ELSE [nodes |-> nodes, p |-> p]

OrAfter(tokens, first) ==
  IF first.n.type = "none" THEN first
  ELSE Collected("or", OrRest(tokens, first.p, <<first.n>>))

parseOr(tokens, p) == OrAfter(tokens, parseAnd(tokens, p))

\* ast ?? { type: 'truthy', key: '', negated: true }
AstOrDefault(ast) ==
  IF ast.type = "none" THEN [type |-> "truthy", key |-> <<>>, negated |-> TRUE] ELSE ast

tplParseTest(s) == AstOrDefault(parseOr(TestTokenize(Trim(s), 0, <<>>), 0).n)

(***************************************************************************)
(* template-parser: the interpolation token.  Nodes:                       *)
(*   [type "text", value]                                                  *)
(*   [type "interp", key, mode, fallbackChain, filters]  (<<>> for absent) *)
(*   [type "if", test, consequent, elseIfs, alternate]   (0 for absent)    *)
(*   [type "each", listExpr, varName, indexVarName, children]              *)
(* A node list is a cell of the heap; a node names its child lists by id.  *)
(***************************************************************************)
\* /^[A-Za-z_][\w.]*$/
tplIsIdentifier(s) == Len(s) > 0 /\ IdentPrefixLen(s, 0) = Len(s)

TextNode(v) == [type |-> "text", value |-> v]

\* s.replace(/pat/g, rep) for a literal pattern
RECURSIVE ReplaceAll(_, _, _)
ReplaceAll(s, pat, rep) ==
  IF s = <<>> THEN <<>>
  ELSE IF StartsWithAt(s, pat, 0) THEN rep \o ReplaceAll(SliceFrom(s, Len(pat)), pat, rep)
  ELSE <<Head(s)>> \o ReplaceAll(Tail(s), pat, rep)

\* /^(['"])([\s\S]*)\1$/
IsQuoted(s) == Len(s) >= 2 /\ s[1] \in {"\"", "'"} /\ s[Len(s)] = s[1]

\* the literal a quoted token denotes: \\ becomes \, then \q becomes q
Unquote(s) == ReplaceAll(ReplaceAll(Slice(s, 1, Len(s) - 1), <<"\\", "\\">>, <<"\\">>),
                         <<"\\", s[1]>>, <<s[1]>>)

\* the right-hand side of a fallback link; NoExpr for null
parseRight(s) ==
  IF IsQuoted(s) THEN [kind |-> "literal", value |-> Str(Unquote(s))]
  ELSE IF IsDecimal(s) THEN [kind |-> "literal", value |-> DecimalValue(s)]
  ELSE IF EqualsCI(s, <<"t","r","u","e">>) THEN [kind |-> "literal", value |-> Bool(TRUE)]
  ELSE IF EqualsCI(s, <<"f","a","l","s","e">>) THEN [kind |-> "literal", value |-> Bool(FALSE)]
  ELSE IF EqualsCI(s, <<"n","u","l","l">>) THEN [kind |-> "literal", value |-> Null]
  ELSE IF tplIsIdentifier(s) THEN [kind |-> "key", key |-> s]
  ELSE NoExpr

\* a filter argument; <<>> for undefined, else <<value>>
parseArg(s) ==
  IF IsQuoted(s) THEN <<Str(Unquote(s))>>
  ELSE IF IsDecimal(s) THEN <<DecimalValue(s)>>
  ELSE IF EqualsCI(s, <<"t","r","u","e">>) THEN <<Bool(TRUE)>>
  ELSE IF EqualsCI(s, <<"f","a","l","s","e">>) THEN <<Bool(FALSE)>>
  ELSE IF EqualsCI(s, <<"n","u","l","l">>) THEN <<Null>>
  ELSE <<>>

\* the scan for the first single | outside quotes: its offset, -1 when none
\* (inQ is the open quote character, "" outside a quoted span)
RECURSIVE FilterSplitAt(_, _, _)
FilterSplitAt(expr, i2, inQ) ==
  IF i2 >= Len(expr) THEN -1
  ELSE LET ch == expr[i2 + 1]
       IN IF inQ # ""
            THEN IF ch = "\\" THEN FilterSplitAt(expr, IF i2 + 1 < Len(expr) THEN i2 + 2 ELSE i2 + 1, inQ)
                 ELSE IF ch = inQ THEN FilterSplitAt(expr, i2 + 1, "")
                 ELSE FilterSplitAt(expr, i2 + 1, inQ)
          ELSE IF ch \in {"\"", "'"} THEN FilterSplitAt(expr, i2 + 1, ch)
          ELSE IF ch = "|"
            THEN IF At(expr, i2 + 1) = "|" THEN FilterSplitAt(expr, i2 + 2, "") ELSE i2
          ELSE FilterSplitAt(expr, i2 + 1, "")

\* parts.push(part) when part is not empty
PushPart(parts, buf) == IF Trim(buf) = <<>> THEN parts ELSE Append(parts, Trim(buf))

\* the split of the expression at top-level || and ??: [parts, ops]
RECURSIVE ExprSplit(_, _, _, _, _, _)
ExprSplit(expr, i2, inQ, buf, parts, ops) ==
  IF i2 >= Len(expr) THEN [parts |-> PushPart(parts, buf), ops |-> ops]
  ELSE LET ch == expr[i2 + 1]
       IN IF inQ # ""
            THEN IF ch = "\\"
                   THEN IF i2 + 1 < Len(expr)
                          THEN ExprSplit(expr, i2 + 2, inQ, buf \o <<ch, expr[i2 + 2]>>, parts, ops)
                          ELSE ExprSplit(expr, i2 + 1, inQ, Append(buf, ch), parts, ops)
                 ELSE ExprSplit(expr, i2 + 1, IF ch = inQ THEN "" ELSE inQ, Append(buf, ch), parts, ops)
          ELSE IF ch \in {"\"", "'"} THEN ExprSplit(expr, i2 + 1, ch, Append(buf, ch), parts, ops)
          ELSE IF ch \in {"|", "?"} /\ At(expr, i2 + 1) = ch
            THEN ExprSplit(expr, i2 + 2, "", <<>>, PushPart(parts, buf),
                           Append(ops, IF ch = "|" THEN "or" ELSE "nullish"))
          ELSE ExprSplit(expr, i2 + 1, "", Append(buf, ch), parts, ops)

\* a chain builder that stops at the bad token and keeps the links before it
RECURSIVE BuildChainTruncated(_, _, _, _)
BuildChainTruncated(parts, ops, i3, chain) ==
  IF i3 >= Len(parts) THEN chain
  ELSE IF parseRight(parts[i3 + 1]).kind = "none" THEN chain
  ELSE BuildChainTruncated(parts, ops, i3 + 1, Append(chain, [op |-> ops[i3], right |-> parseRight(parts[i3 + 1])]))

\* the chain-building loop from part i3 (1-based here: parts[i3 + 1] is the source's parts[i3])
RECURSIVE BuildChain(_, _, _, _)
BuildChain(parts, ops, i3, chain) ==
  IF i3 >= Len(parts) THEN chain
  ELSE LET r == parseRight(parts[i3 + 1])
       IN IF r.kind = "none" THEN <<>>
          ELSE BuildChain(parts, ops, i3 + 1, Append(chain, [op |-> ops[i3], right |-> r]))

\* seg.split('|')
RECURSIVE SplitBars(_, _)
SplitBars(s, cur) ==
  IF s = <<>> THEN <<cur>>
  ELSE IF Head(s) = "|" THEN <<cur>> \o SplitBars(Tail(s), <<>>)
  ELSE SplitBars(Tail(s), Append(cur, Head(s)))

\* .map((t) => t.trim()).filter((t) => t.length > 0)
RECURSIVE TrimNonEmpty(_)
TrimNonEmpty(ps) ==
  IF ps = <<>> THEN <<>>
  ELSE (IF Trim(Head(ps)) = <<>> THEN <<>> ELSE <<Trim(Head(ps))>>) \o TrimNonEmpty(Tail(ps))

RECURSIVE WordRun(_, _)
WordRun(s, i) == IF i < Len(s) /\ IsWord(s[i + 1]) THEN WordRun(s, i + 1) ELSE i

\* /^(\w+)\s*(?:\((.*)\))?$/ on one raw filter: [ok, name, hasGroup, group]
FilterMatch(rf) ==
  LET w == WordRun(rf, 0)
      o == LeadWs(rf, w)
      n == Len(rf)
      grp == Slice(rf, o + 1, n - 1)
  IN IF w = 0 THEN [ok |-> FALSE, name |-> <<>>, hasGroup |-> FALSE, group |-> <<>>]
     ELSE IF o = n THEN [ok |-> TRUE, name |-> Slice(rf, 0, w), hasGroup |-> FALSE, group |-> <<>>]
     ELSE IF rf[o + 1] = "(" /\ n >= o + 2 /\ rf[n] = ")" /\ \A k \in 1..Len(grp) : IsDot(grp[k])
       THEN [ok |-> TRUE, name |-> Slice(rf, 0, w), hasGroup |-> TRUE, group |-> grp]
     ELSE [ok |-> FALSE, name |-> <<>>, hasGroup |-> FALSE, group |-> <<>>]

\* args.push(parsed) unless parsed is undefined
PushArg(args, a) == args \o parseArg(Trim(a))

\* the split of the argument list at commas outside quotes
RECURSIVE ArgSplit(_, _, _, _, _)
ArgSplit(argsSrc, i4, inA, a, args) ==
  IF i4 >= Len(argsSrc) THEN IF Trim(a) = <<>> THEN args ELSE PushArg(args, a)
  ELSE LET ch == argsSrc[i4 + 1]
       IN IF inA # ""
            THEN IF ch = "\\"
                   THEN IF i4 + 1 < Len(argsSrc)
                          THEN ArgSplit(argsSrc, i4 + 2, inA, a \o <<ch, argsSrc[i4 + 2]>>, args)
                          ELSE ArgSplit(argsSrc, i4 + 1, inA, Append(a, ch), args)
                 ELSE ArgSplit(argsSrc, i4 + 1, IF ch = inA THEN "" ELSE inA, Append(a, ch), args)
          ELSE IF ch \in {"\"", "'"} THEN ArgSplit(argsSrc, i4 + 1, ch, Append(a, ch), args)
          ELSE IF ch = "," THEN ArgSplit(argsSrc, i4 + 1, "", <<>>, PushArg(args, a))
          ELSE ArgSplit(argsSrc, i4 + 1, "", Append(a, ch), args)

\* the loop over rawFilters
RECURSIVE ParseFilters(_)
ParseFilters(rawFilters) ==
  IF rawFilters = <<>> THEN <<>>
  ELSE LET mFn == FilterMatch(Head(rawFilters))
           withArgs == mFn.hasGroup /\ Trim(mFn.group) # <<>>
           f == [name |-> mFn.name, hasArgs |-> withArgs,
                 args |-> IF withArgs THEN ArgSplit(mFn.group, 0, "", <<>>, <<>>) ELSE <<>>]
       IN (IF mFn.ok THEN <<f>> ELSE <<>>) \o ParseFilters(Tail(rawFilters))

\* lines 150-362: the node an interpolation's inner text parses to, or ok = FALSE
\* when the token is kept as literal text
ParseInterpInner(inner) ==
  LET mode == IF At(inner, 0) = "=" THEN "raw" ELSE "escape"
      expr0 == Trim(IF At(inner, 0) = "=" THEN SliceFrom(inner, 1) ELSE inner)
      cut == FilterSplitAt(expr0, 0, "")
      filtersSeg == IF cut = -1 THEN <<>> ELSE SliceFrom(expr0, cut)
      expr == IF cut = -1 THEN expr0 ELSE Trim(Slice(expr0, 0, cut))
      sp == ExprSplit(expr, 0, "", <<>>, <<>>, <<>>)
  IN IF Len(sp.parts) >= 1 /\ tplIsIdentifier(sp.parts[1])
       THEN [ok |-> TRUE,
             node |-> [type |-> "interp", key |-> sp.parts[1], mode |-> mode,
                       fallbackChain |-> BuildChain(sp.parts, sp.ops, 1, <<>>),
                       filters |-> IF filtersSeg = <<>> THEN <<>>
                                   ELSE ParseFilters(TrimNonEmpty(SplitBars(filtersSeg, <<>>)))]]
     ELSE IF tplIsIdentifier(expr)
       THEN [ok |-> TRUE,
             node |-> [type |-> "interp", key |-> expr, mode |-> mode,
                       fallbackChain |-> <<>>, filters |-> <<>>]]
     ELSE [ok |-> FALSE, node |-> TextNode(<<>>)]

(***************************************************************************)
(* The parse-time stacks.  A parser state P is [heap, ns, cs, preserved]:  *)
(* the node lists, nodesStack (list ids), controlStack (frames) and the    *)
(* preservedAsText flag of the control token being handled.  A frame is    *)
(* [kind, node, parentNodes, inAlternate].                                 *)
(***************************************************************************)
Top(stack) == stack[Len(stack)]

Pop(stack) == SubSeq(stack, 1, Len(stack) - 1)

tplPush(P, n) == [P EXCEPT !.heap[Top(P.ns)] = Append(@, n)]

\* pushTextToken of tplParse
pushTextToken(P, v) == tplPush([P EXCEPT !.preserved = TRUE], TextNode(v))

tplParseIfOpen(P, expr) ==
  LET id == Len(P.heap) + 1
      node == [type |-> "if", test |-> tplParseTest(expr), consequent |-> id,
               elseIfs |-> <<>>, alternate |-> 0]
  IN [P EXCEPT !.cs = Append(@, [kind |-> "if", node |-> node, parentNodes |-> Top(P.ns),
                                  inAlternate |-> FALSE]),
               !.heap = Append(@, <<>>),
               !.ns = Append(@, id)]

tplParseElseIf(P, expr, literalToken) ==
  IF P.cs = <<>> \/ Top(P.cs).kind # "if" THEN pushTextToken(P, literalToken)
  ELSE IF Top(P.cs).inAlternate THEN pushTextToken(P, literalToken)
  ELSE LET id == Len(P.heap) + 1
       IN [P EXCEPT !.ns = Append(Pop(@), id),
                    !.heap = Append(@, <<>>),
                    !.cs[Len(P.cs)].node.elseIfs = Append(@, [test |-> tplParseTest(expr), nodes |-> id])]

tplParseElse(P, literalToken) ==
  IF P.cs = <<>> \/ Top(P.cs).kind # "if" THEN pushTextToken(P, literalToken)
  ELSE IF Top(P.cs).inAlternate THEN pushTextToken(P, literalToken)
  ELSE LET id == Len(P.heap) + 1
       IN [P EXCEPT !.ns = Append(Pop(@), id),
                    !.heap = Append(@, <<>>),
                    !.cs[Len(P.cs)].node.alternate = id,
                    !.cs[Len(P.cs)].inAlternate = TRUE]

\* close a frame whose kind is checked only after controlStack.pop()
CloseFrame(P, kind, literalToken) ==
  IF P.cs = <<>> THEN pushTextToken(P, literalToken)
  ELSE LET top == Top(P.cs)
           popped == [P EXCEPT !.cs = Pop(@)]
       IN IF top.kind # kind THEN pushTextToken(popped, literalToken)
          ELSE [popped EXCEPT !.ns = Pop(@),
                              !.heap[top.parentNodes] = Append(@, top.node)]

tplParseEndIf(P, literalToken) == CloseFrame(P, "if", literalToken)

tplParseEachOpen(P, listExpr, varName, indexVarName) ==
  LET id == Len(P.heap) + 1
      node == [type |-> "each", listExpr |-> listExpr, varName |-> varName,
               indexVarName |-> indexVarName, children |-> id]
  IN [P EXCEPT !.cs = Append(@, [kind |-> "each", node |-> node, parentNodes |-> Top(P.ns),
                                  inAlternate |-> FALSE]),
               !.heap = Append(@, <<>>),
               !.ns = Append(@, id)]

\* the rest of reEach after the list expression:
\* \s+as\s+([A-Za-z_][\w]*)(?:\s*,\s*([A-Za-z_][\w]*))?$  ->  [ok, var, idx]
EachTail(t) ==
  LET n == Len(t)
      j1 == LeadWs(t, 0)
      j2 == LeadWs(t, j1 + 2)
      j3 == WordRun(t, j2)
      j4 == LeadWs(t, j3)
      j5 == LeadWs(t, j4 + 1)
      j6 == WordRun(t, j5)
      head == /\ j1 >= 1
              /\ LowerCh(At(t, j1)) = "a" /\ LowerCh(At(t, j1 + 1)) = "s"
              /\ j2 > j1 + 2
              /\ IsIdentStart(At(t, j2))
  IN IF head /\ j3 = n THEN [ok |-> TRUE, var |-> Slice(t, j2, j3), idx |-> <<>>]
     ELSE IF head /\ At(t, j4) = "," /\ IsIdentStart(At(t, j5)) /\ j6 = n
       THEN [ok |-> TRUE, var |-> Slice(t, j2, j3), idx |-> Slice(t, j5, j6)]
     ELSE [ok |-> FALSE, var |-> <<>>, idx |-> <<>>]

NoEachMatch == [ok |-> FALSE, list |-> <<>>, var |-> <<>>, idx |-> <<>>]

\* the spans (a, b) of raw that (.+?) can capture so that the rest matches,
\* the list expression starting after 1 to w - 4 whitespace characters
EachCands(raw, w) ==
  {ab \in (5..w) \X (6..Len(raw)) :
     /\ ab[2] > ab[1]
     /\ \A k \in (ab[1] + 1)..ab[2] : IsDot(raw[k])
     /\ EachTail(SliceFrom(raw, ab[2])).ok}

\* the span the engine finds first: \s+ is greedy, (.+?) is lazy
EachFirst(cands) ==
  CHOOSE ab \in cands : \A cd \in cands : ab[1] > cd[1] \/ (ab[1] = cd[1] /\ ab[2] <= cd[2])

EachCaptures(raw, best, tl) ==
  [ok |-> TRUE, list |-> Slice(raw, best[1], best[2]), var |-> tl.var, idx |-> tl.idx]

EachPick(raw, best) == EachCaptures(raw, best, EachTail(SliceFrom(raw, best[2])))

EachAmong(raw, cands) == IF cands = {} THEN NoEachMatch ELSE EachPick(raw, EachFirst(cands))

\* reEach.exec(raw), reEach = /^each\s+(.+?)\s+as\s+([A-Za-z_][\w]*)(?:\s*,\s*([A-Za-z_][\w]*))?$/i
EachMatch(raw) ==
  IF ~StartsWithCI(raw, <<"e","a","c","h">>) \/ LeadWs(raw, 4) < 5 THEN NoEachMatch
  ELSE EachAmong(raw, EachCands(raw, LeadWs(raw, 4)))

\* tplParseEach once reEach ran
EachOpenOrText(P, mEach, literalToken) ==
  IF ~mEach.ok THEN pushTextToken(P, literalToken)
  ELSE tplParseEachOpen(P, Trim(mEach.list), mEach.var, mEach.idx)

tplParseEach(P, raw, literalToken) == EachOpenOrText(P, EachMatch(raw), literalToken)

tplParseEndEach(P, literalToken) == CloseFrame(P, "each", literalToken)

(***************************************************************************)
(* tplParse: whitespace control and one iteration of the scan loop.        *)
(***************************************************************************)
toTrimMode(ch) == IF ch = "-" THEN "all" ELSE IF ch = "~" THEN "no-newlines" ELSE "none"

trimEndByMode(s, mode) ==
  IF mode = "none" THEN s
  ELSE IF mode = "all" THEN TrimEndAll(s)
  ELSE TrimEndNoNewlines(s)

\* a forward skip that takes the ~ marker for the - marker
RECURSIVE skipWsForwardAcrossNewlines(_, _, _)
skipWsForwardAcrossNewlines(t, idx0, mode) ==
  IF mode = "none" \/ idx0 >= Len(t) THEN idx0
  ELSE IF IsWs(At(t, idx0)) THEN skipWsForwardAcrossNewlines(t, idx0 + 1, mode)
  ELSE idx0

RECURSIVE skipWsForwardByMode(_, _, _)
skipWsForwardByMode(t, idx0, mode) ==
  IF mode = "none" \/ idx0 >= Len(t) THEN idx0
  ELSE IF mode = "no-newlines" /\ At(t, idx0) \in {"\r", "\n"} THEN idx0
  ELSE IF IsWs(At(t, idx0)) THEN skipWsForwardByMode(t, idx0 + 1, mode)
  ELSE idx0

skipOneNewlineAfterControlToken(t, idx0) ==
  IF idx0 >= Len(t) THEN idx0
  ELSE IF At(t, idx0) = "\r" THEN (IF At(t, idx0 + 1) = "\n" THEN idx0 + 2 ELSE idx0 + 1)
  ELSE IF At(t, idx0) = "\n" THEN idx0 + 1
  ELSE idx0

\* reToken.exec(tpl) from lastIndex = i: the index of the next opener, -1 for none
reToken(t, i) ==
  LET hits == {k \in i..(Len(t) - 2) : t[k + 1] = "{" /\ t[k + 2] \in {"{", "%", "#"}}
  IN IF hits = {} THEN -1 ELSE CHOOSE k \in hits : \A j \in hits : k <= j

\* the closer that ends a token opened with "{" and the character c
Closer(c) == IF c = "{" THEN <<"}", "}">> ELSE <<c, "}">>

\* the token the scan loop is at: its start, opener kind, trim modes and end
Token(t, i) ==
  LET start == reToken(t, i)
      openTrimMode == toTrimMode(At(t, start + 2))
      openLen == 2 + (IF openTrimMode = "none" THEN 0 ELSE 1)
      end == IndexOf(t, Closer(At(t, start + 1)), start + openLen)
      closeTrimMode == toTrimMode(At(t, end - 1))
  IN [start |-> start, kind |-> At(t, start + 1), openTrimMode |-> openTrimMode,
      openLen |-> openLen, end |-> end, closeTrimMode |-> closeTrimMode,
      inner |-> Trim(Slice(t, start + openLen, IF closeTrimMode = "none" THEN end ELSE end - 1)),
      literal |-> Slice(t, start, end + 2)]

\* a scan loop that trims the text before a token
pushPreTextTrimmed(P, t, i, start) ==
  IF start > i THEN tplPush(P, TextNode(Trim(Slice(t, i, start)))) ELSE P

\* a left trim that does not ask whether the token was consumed
applyLeftTrimAlways(P, tokenConsumed, mode, hasPre, l, pos) ==
  IF mode # "none" /\ hasPre
    THEN [P EXCEPT !.heap[l][pos].value = trimEndByMode(@, mode)]
    ELSE P

\* lines 127-132: the text before the token is pushed as it is
pushPreText(P, t, i, start) ==
  IF start > i THEN tplPush(P, TextNode(Slice(t, i, start))) ELSE P

\* lines 134-139: preTextNode, when there is one, is the node at position pos of list l
applyLeftTrimIfNeeded(P, tokenConsumed, mode, hasPre, l, pos) ==
  IF tokenConsumed /\ mode # "none" /\ hasPre
    THEN [P EXCEPT !.heap[l][pos].value = trimEndByMode(@, mode)]
    ELSE P

\* lines 408-426: the control-token dispatch
ControlToken(P, raw, literalToken) ==
  IF StartsWithCI(raw, <<"i","f">>) /\ IsWs(At(raw, 2))
    THEN tplParseIfOpen(P, SliceFrom(raw, LeadWs(raw, 2)))
  ELSE IF StartsWithCI(raw, <<"e","l","s","e","i","f">>) /\ IsWs(At(raw, 6))
    THEN tplParseElseIf(P, SliceFrom(raw, LeadWs(raw, 6)), literalToken)
  ELSE IF EqualsCI(raw, <<"e","l","s","e">>) THEN tplParseElse(P, literalToken)
  ELSE IF EqualsCI(raw, <<"e","n","d","i","f">>) THEN tplParseEndIf(P, literalToken)
  ELSE IF StartsWithCI(raw, <<"e","a","c","h">>) /\ IsWs(At(raw, 4))
    THEN tplParseEach(P, raw, literalToken)
  ELSE IF EqualsCI(raw, <<"e","n","d","e","a","c","h">>) THEN tplParseEndEach(P, literalToken)
  ELSE pushTextToken(P, literalToken)

Parser == [heap |-> heap, ns |-> nodesStack, cs |-> controlStack, preserved |-> FALSE]

Scanning == pc = "parse" /\ idx < Len(tpl)

\* lines 117-120: no opener is left, the rest of the template is text
ParseTail ==
  /\ Scanning
  /\ reToken(tpl, idx) = -1
  /\ heap' = tplPush(Parser, TextNode(SliceFrom(tpl, idx))).heap
  /\ pc' = "parsed"
  /\ UNCHANGED <<tpl, data, idx, nodesStack, controlStack, out, getterCalls, raised,
               templateFilterRegistry>>

\* lines 143-147, 377-381, 390-394: a token without its closer
ParseUnterminated ==
  /\ Scanning
  /\ reToken(tpl, idx) # -1
  /\ \E tk \in {Token(tpl, idx)} :
       /\ tk.end = -1
       /\ heap' = tplPush(pushPreText(Parser, tpl, idx, tk.start), TextNode(SliceFrom(tpl, tk.start))).heap
  /\ pc' = "parsed"
  /\ UNCHANGED <<tpl, data, idx, nodesStack, controlStack, out, getterCalls, raised,
               templateFilterRegistry>>

\* lines 364-373: the node or the literal token is pushed, the cursor moves on
InterpToken(P1, t, tk, hasPre, l, r) ==
  [heap |-> tplPush(applyLeftTrimIfNeeded(P1, r.ok, tk.openTrimMode, hasPre, l, Len(P1.heap[l])),
                    IF r.ok THEN r.node ELSE TextNode(tk.literal)).heap,
   idx |-> IF r.ok THEN skipWsForwardByMode(t, tk.end + 2, tk.closeTrimMode) ELSE tk.end + 2]

\* lines 140-373: an interpolation token
ParseInterp ==
  /\ Scanning
  /\ reToken(tpl, idx) # -1
  /\ \E tk \in {Token(tpl, idx)} :
       /\ tk.kind = "{" /\ tk.end # -1
       /\ \E r \in {InterpToken(pushPreText(Parser, tpl, idx, tk.start), tpl, tk, tk.start > idx,
                                Top(nodesStack), ParseInterpInner(tk.inner))} :
            /\ heap' = r.heap
            /\ idx' = r.idx
  /\ UNCHANGED <<tpl, data, pc, nodesStack, controlStack, out, getterCalls, raised,
               templateFilterRegistry>>

\* lines 374-386: a comment token
ParseComment ==
  /\ Scanning
  /\ reToken(tpl, idx) # -1
  /\ \E tk \in {Token(tpl, idx)} :
       /\ tk.kind = "#" /\ tk.end # -1
       /\ \E P1 \in {pushPreText(Parser, tpl, idx, tk.start)} :
            heap' = applyLeftTrimIfNeeded(P1, TRUE, tk.openTrimMode, tk.start > idx,
                                          Top(nodesStack), Len(P1.heap[Top(nodesStack)])).heap
       /\ idx' = skipWsForwardByMode(tpl, tk.end + 2, tk.closeTrimMode)
  /\ UNCHANGED <<tpl, data, pc, nodesStack, controlStack, out, getterCalls, raised,
               templateFilterRegistry>>

\* a scan loop that reads a preserved token again from its opener
ControlDoneAtOpener(P2, t, tk, hasPre, l, pos) ==
  [P |-> applyLeftTrimIfNeeded(P2, ~P2.preserved, tk.openTrimMode, hasPre, l, pos),
   idx |-> IF P2.preserved THEN tk.start
           ELSE IF tk.closeTrimMode # "none" THEN skipWsForwardByMode(t, tk.end + 2, tk.closeTrimMode)
           ELSE skipOneNewlineAfterControlToken(t, tk.end + 2)]

\* lines 428-436: the left trim and the cursor after the handler ran (P2)
ControlDone(P2, t, tk, hasPre, l, pos) ==
  [P |-> applyLeftTrimIfNeeded(P2, ~P2.preserved, tk.openTrimMode, hasPre, l, pos),
   idx |-> IF P2.preserved THEN tk.end + 2
           ELSE IF tk.closeTrimMode # "none" THEN skipWsForwardByMode(t, tk.end + 2, tk.closeTrimMode)
           ELSE skipOneNewlineAfterControlToken(t, tk.end + 2)]

\* lines 387-436 on the parser state P1 that holds the text before the token
ControlStep(P1, t, tk, hasPre, l) ==
  ControlDone(ControlToken(P1, tk.inner, tk.literal), t, tk, hasPre, l, Len(P1.heap[l]))

\* lines 387-436: a control token
ParseControl ==
  /\ Scanning
  /\ reToken(tpl, idx) # -1
  /\ \E tk \in {Token(tpl, idx)} :
       /\ tk.kind = "%" /\ tk.end # -1
       /\ \E r \in {ControlStep(pushPreText(Parser, tpl, idx, tk.start), tpl, tk, tk.start > idx,
                                Top(nodesStack))} :
            /\ heap' = r.P.heap
            /\ nodesStack' = r.P.ns
            /\ controlStack' = r.P.cs
            /\ idx' = r.idx
  /\ UNCHANGED <<tpl, data, pc, out, getterCalls, raised,
               templateFilterRegistry>>

\* line 114 and 440: the scan reached the end of the template, root is returned
ParseEnd ==
  /\ pc = "parse" /\ idx >= Len(tpl)
  /\ pc' = "parsed"
  /\ UNCHANGED <<tpl, data, idx, heap, nodesStack, controlStack, out, getterCalls, raised,
               templateFilterRegistry>>

(***************************************************************************)
(* template-filters: the registry and the handlers.  A handler result is   *)
(* [v, gets, err]: the value, the getter calls String(val) made, and       *)
(* whether it threw.                                                       *)
(***************************************************************************)
\* a function value, known by the name of its declaration
Fn(id) == [t |-> "fn", id |-> id]

\* lines 74-82: the registry after the module was loaded
builtInFilters ==
  <<"d","a","t","e","f","o","r","m","a","t">> :> Fn("filterDateformat")
  @@ <<"j","s","o","n">> :> Fn("filterJson")
  @@ <<"l","o","w","e","r">> :> Fn("filterLower")
  @@ <<"n","u","m","b","e","r">> :> Fn("filterNumber")
  @@ <<"r","e","p","l","a","c","e">> :> Fn("filterReplace")
  @@ <<"s","t","r","i","n","g">> :> Fn("filterString")
  @@ <<"t","r","i","m">> :> Fn("filterTrim")
  @@ <<"u","p","p","e","r">> :> Fn("filterUpper")
  @@ <<"u","r","l","e","n","c","o","d","e">> :> Fn("filterUrlencode")

\* /^[a-z][\w]*$/.test(name)
ValidFilterName(name) ==
  /\ name # <<>>
  /\ name[1] \in LowerSet
  /\ \A i \in 2..Len(name) : IsWord(name[i])

\* a registration that tests neither the name nor the handler
registerAnything(reg, name, handler) ==
  [registry |-> [n \in DOMAIN reg \cup {name} |-> IF n = name THEN handler ELSE reg[n]],
   threw |-> FALSE]

\* registerTemplateFilter(name, handler) on the registry reg: the registry
\* after the call and whether the call threw its TypeError
registerTemplateFilter(reg, name, handler) ==
  IF ~ValidFilterName(name) THEN [registry |-> reg, threw |-> TRUE]
  ELSE IF handler.t # "fn" THEN [registry |-> reg, threw |-> TRUE]
  ELSE [registry |-> [n \in DOMAIN reg \cup {name} |-> IF n = name THEN handler ELSE reg[n]],
        threw |-> FALSE]

\* (val === undefined || val === null) ? '' : String(val)
StringOrEmpty(val) ==
  IF val.t \in {"undef", "null"} THEN [s |-> <<>>, gets |-> 0, err |-> FALSE] ELSE JsString(val)

AsValue(r, f(_)) == [v |-> IF r.err THEN Undef ELSE Str(f(r.s)), gets |-> r.gets, err |-> r.err]

filterUpper(val) == AsValue(StringOrEmpty(val), ToUpper)

filterLower(val) == AsValue(StringOrEmpty(val), ToLower)

\* the string as String(val) gave it
UnchangedString(s) == s

filterString(val) == AsValue(StringOrEmpty(val), UnchangedString)

TrimStart(s) == SliceFrom(s, LeadWs(s, 0))

filterTrim(val, args) ==
  LET mode == IF args # <<>> /\ args[1].t = "str" THEN ToLower(args[1].s) ELSE <<"b","o","t","h">>
  IN IF mode = <<"l","e","f","t">> THEN AsValue(StringOrEmpty(val), TrimStart)
     ELSE IF mode = <<"r","i","g","h","t">> THEN AsValue(StringOrEmpty(val), TrimEndAll)
     ELSE AsValue(StringOrEmpty(val), Trim)

filterReplace(val, args) ==
  LET from == IF Len(args) > 0 THEN JsString(args[1]).s ELSE <<>>
      to == IF Len(args) > 1 THEN JsString(args[2]).s ELSE <<>>
      rep(src) == IF from = <<>> THEN src ELSE ReplaceAll(src, from, to)
  IN AsValue(StringOrEmpty(val), rep)

\* the handlers a caller registers: toStr of a value that is not an object
toStr(val) ==
  CASE val.t \in {"undef", "null"} -> <<>>
    [] val.t = "str" -> val.s
    [] val.t \in {"num", "bool", "nan"} -> JsString(val).s

\* (val) => '[' + toStr(val) + ']'
brackets(val) == [v |-> Str(<<"[">> \o toStr(val) \o <<"]">>), gets |-> 0, err |-> FALSE]

\* (val, args) => p + toStr(val), p the first argument when it is a string
prefix(val, args) ==
  [v |-> Str((IF args # <<>> /\ args[1].t = "str" THEN args[1].s ELSE <<>>) \o toStr(val)),
   gets |-> 0, err |-> FALSE]

\* handler(val, f.args) for the handlers modelled
ApplyHandler(handler, val, args) ==
  CASE handler.id = "filterUpper" -> filterUpper(val)
    [] handler.id = "filterLower" -> filterLower(val)
    [] handler.id = "filterString" -> filterString(val)
    [] handler.id = "filterTrim" -> filterTrim(val, args)
    [] handler.id = "filterReplace" -> filterReplace(val, args)
    [] handler.id = "brackets" -> brackets(val)
    [] handler.id = "prefix" -> prefix(val, args)

\* the getter calls g made before r
AddGets(g, r) == [r EXCEPT !.gets = @ + g]

\* a pipeline that runs the last filter call first
RECURSIVE applyTemplateFiltersReversed(_, _)
applyTemplateFiltersReversed(value, filters) ==
  IF filters = <<>> THEN [v |-> value, gets |-> 0, err |-> FALSE]
  ELSE LET f == filters[Len(filters)]
           rest == SubSeq(filters, 1, Len(filters) - 1)
       IN IF f.name \notin DOMAIN templateFilterRegistry
            THEN applyTemplateFiltersReversed(value, rest)
            ELSE LET h == ApplyHandler(templateFilterRegistry[f.name], value, f.args)
                 IN IF h.err THEN h
                    ELSE AddGets(h.gets, applyTemplateFiltersReversed(h.v, rest))

RECURSIVE applyTemplateFilters(_, _)
\* val = handler(val, f.args), then the rest of the pipeline
FilterNext(h, rest) == IF h.err THEN h ELSE AddGets(h.gets, applyTemplateFilters(h.v, rest))

applyTemplateFilters(value, filters) ==
  IF filters = <<>> THEN [v |-> value, gets |-> 0, err |-> FALSE]
  ELSE IF Head(filters).name \notin DOMAIN templateFilterRegistry
    THEN applyTemplateFilters(value, Tail(filters))
  ELSE FilterNext(ApplyHandler(templateFilterRegistry[Head(filters).name], value, Head(filters).args),
                  Tail(filters))

(***************************************************************************)
(* template-if: tplRenderIfNode's evalTest.  Results are [b, gets, err].   *)
(***************************************************************************)
\* the characters of the data and templates in code-unit order (no backquote)
AsciiSeq ==
  <<"\t", "\n", "\r", " ", "!", "\"", "#", "$", "%", "&", "'", "(", ")", "*", "+", ",", "-",
    ".", "/">> \o DigitSeq \o <<":", ";", "<", "=", ">", "?", "@">> \o UpperSeq
  \o <<"[", "\\", "]", "^", "_">> \o LowerSeq \o <<"{", "|", "}", "~">>

Code(c) == PosIn(AsciiSeq, c)

\* ls < rs on strings
RECURSIVE StrLess(_, _)
StrLess(a, b) ==
  IF b = <<>> THEN FALSE
  ELSE IF a = <<>> THEN TRUE
  ELSE IF Head(a) = Head(b) THEN StrLess(Tail(a), Tail(b))
  ELSE Code(Head(a)) < Code(Head(b))

\* ln < rn on numbers
NumLess(a, b) == a.m * Pow10(b.e) < b.m * Pow10(a.e)

Relate(op, lt, eq) ==
  CASE op = <<">">> -> ~lt /\ ~eq
    [] op = <<"<">> -> lt
    [] op = <<">", "=">> -> ~lt
    [] op = <<"<", "=">> -> lt \/ eq

\* (typeof v === 'number') ? v : Number(v)
NumberOf(v) == IF v.t \in {"num", "nan"} THEN [n |-> v, gets |-> 0, err |-> FALSE] ELSE JsNumber(v)

OperandValue(e, scopes) == IF e.kind = "literal" THEN e.value ELSE tplResolveKey(scopes, e.key)

\* Number.isNaN(ln) ? false : (ln === rightVal)
EqNumber(ln, rightVal) ==
  [b |-> ~ln.err /\ ln.n.t = "num" /\ ln.n = rightVal, gets |-> ln.gets, err |-> ln.err]

\* ls === String(rightVal)
EqStrings(ls, rs) ==
  IF ls.err THEN [b |-> FALSE, gets |-> ls.gets, err |-> TRUE]
  ELSE [b |-> ~rs.err /\ ls.s = rs.s, gets |-> ls.gets + rs.gets, err |-> rs.err]

\* the equality arm of compare
CompareEq(leftVal, rightVal) ==
  IF rightVal.t \in {"num", "nan"} THEN EqNumber(NumberOf(leftVal), rightVal)
  ELSE IF rightVal.t = "bool"
    THEN [b |-> JsBoolean(leftVal) = rightVal.b, gets |-> 0, err |-> FALSE]
  ELSE IF rightVal.t = "null"
    THEN [b |-> leftVal.t \in {"null", "undef"}, gets |-> 0, err |-> FALSE]
  ELSE EqStrings(StringOrEmpty(leftVal), JsString(rightVal))

\* the string fallback of the relational arm
RelStrings(op, ls, rs) ==
  IF ls.err THEN [b |-> FALSE, gets |-> ls.gets, err |-> TRUE]
  ELSE IF rs.err THEN [b |-> FALSE, gets |-> ls.gets + rs.gets, err |-> TRUE]
  ELSE [b |-> Relate(op, StrLess(ls.s, rs.s), ls.s = rs.s), gets |-> ls.gets + rs.gets, err |-> FALSE]

\* the relational arm once ln and rn are converted
RelNumbers(op, ln, rn, leftVal, rightVal) ==
  IF ln.err THEN [b |-> FALSE, gets |-> ln.gets, err |-> TRUE]
  ELSE IF rn.err THEN [b |-> FALSE, gets |-> ln.gets + rn.gets, err |-> TRUE]
  ELSE IF ln.n.t = "num" /\ rn.n.t = "num"
    THEN [b |-> Relate(op, NumLess(ln.n, rn.n), ln.n = rn.n), gets |-> ln.gets + rn.gets, err |-> FALSE]
  ELSE AddGets(ln.gets + rn.gets, RelStrings(op, StringOrEmpty(leftVal), StringOrEmpty(rightVal)))

\* the relational arm of compare
CompareRel(op, leftVal, rightVal) ==
  RelNumbers(op, NumberOf(leftVal), NumberOf(rightVal), leftVal, rightVal)

Negate(r, negated) == IF negated THEN [r EXCEPT !.b = ~r.b /\ ~r.err] ELSE r

\* the compare arm on the operand values
Compare(t, leftVal, rightVal) ==
  Negate(IF t.op \in {<<"=", "=">>, <<"!", "=">>}
           THEN Negate(CompareEq(leftVal, rightVal), t.op = <<"!", "=">>)
           ELSE CompareRel(t.op, leftVal, rightVal),
         t.negated)

RECURSIVE evalTest(_, _)
RECURSIVE EvalAll(_, _, _)
\* one turn of the loops of the and / or arms: stop at the first test that
\* differs from through
EvalNext(h, through, rest) == IF h.err \/ h.b # through THEN h ELSE AddGets(h.gets, rest)

EvalAll(nodes, scopes, through) ==
  IF nodes = <<>> THEN [b |-> through, gets |-> 0, err |-> FALSE]
  ELSE EvalNext(evalTest(Head(nodes), scopes), through, EvalAll(Tail(nodes), scopes, through))

evalTest(t, scopes) ==
  CASE t.type = "truthy" ->
         [b |-> tplTruthy(tplResolveKey(scopes, t.key)) # t.negated, gets |-> 0, err |-> FALSE]
    [] t.type = "truthy-literal" ->
         [b |-> tplTruthy(t.value) # t.negated, gets |-> 0, err |-> FALSE]
    [] t.type = "not" -> Negate(evalTest(t.node, scopes), TRUE)
    [] t.type = "and" -> EvalAll(t.nodes, scopes, TRUE)
    [] t.type = "or" -> EvalAll(t.nodes, scopes, FALSE)
    [] t.type = "compare" ->
         Compare(t, OperandValue(t.left, scopes), OperandValue(t.right, scopes))

(***************************************************************************)
(* Rendering: tplRenderNodes, tplRenderIfNode, tplRenderEachNode.          *)
(* Results are [out, gets, err]: the output, the getters of the data that  *)
(* ran, and whether an exception left the renderer.  h is the heap of node *)
(* lists the parser built.                                                 *)
(***************************************************************************)
Rendered(str) == [out |-> str, gets |-> 0, err |-> FALSE]

Threw(g) == [out |-> <<>>, gets |-> g, err |-> TRUE]

\* out += r2 after r1, unless r1 threw
Then(r1, r2) ==
  IF r1.err THEN r1
  ELSE [out |-> r1.out \o r2.out, gets |-> r1.gets + r2.gets, err |-> r2.err]

\* a fallback link that treats ?? as ||
FallbackOnEmpty(val, fb, scopes) ==
  IF tplEmptyish(val) THEN OperandValue(fb.right, scopes) ELSE val

\* val = (fb.right.kind === 'literal') ? fb.right.value : tplResolveKey(scopes, fb.right.key)
Fallback(val, fb, scopes) ==
  IF \/ fb.op = "or" /\ tplEmptyish(val)
     \/ fb.op = "nullish" /\ val.t \in {"null", "undef"}
    THEN OperandValue(fb.right, scopes)
    ELSE val

\* the fallback loop of the interp arm
RECURSIVE ApplyChain(_, _, _)
ApplyChain(val, chain, scopes) ==
  IF chain = <<>> THEN val
  ELSE ApplyChain(Fallback(val, Head(chain), scopes), Tail(chain), scopes)

\* lines 483-486: str of the final value
FinalString(val) ==
  IF val.t = "str" THEN [s |-> val.s, gets |-> 0, err |-> FALSE]
  ELSE IF val.t \in {"undef", "null"} THEN [s |-> <<>>, gets |-> 0, err |-> FALSE]
  ELSE JsString(val)

\* an emitter that ignores n.mode and escapes every interpolation
EmitStringEscaped(n, str) ==
  IF str.err THEN Threw(str.gets)
  ELSE [out |-> escapeHtml(str.s), gets |-> str.gets, err |-> FALSE]

\* line 487: out += (n.mode === 'raw') ? str : escapeHtml(str)
EmitString(n, str) ==
  IF str.err THEN Threw(str.gets)
  ELSE [out |-> IF n.mode = "raw" THEN str.s ELSE escapeHtml(str.s), gets |-> str.gets, err |-> FALSE]

\* the interp arm after the filters ran
EmitFiltered(n, f) == IF f.err THEN Threw(f.gets) ELSE AddGets(f.gets, EmitString(n, FinalString(f.v)))

\* the interp arm of tplRenderNodes
RenderInterp(n, scopes) ==
  EmitFiltered(n, applyTemplateFilters(ApplyChain(tplResolveKey(scopes, n.key), n.fallbackChain, scopes),
                                       n.filters))

\* { ...base }: the own enumerable properties are read (an accessor's getter
\* runs) and become data properties of a new object; [props, gets]
RECURSIVE Spread(_)
Spread(ps) ==
  IF ps = <<>> THEN [props |-> <<>>, gets |-> 0]
  ELSE LET p == Head(ps)
           r == Spread(Tail(ps))
       IN IF ~p.enum THEN r
          ELSE [props |-> <<Prop(p.k, IF p.acc /\ ~p.get THEN Undef ELSE p.v)>> \o r.props,
                gets |-> (IF p.acc /\ p.get THEN 1 ELSE 0) + r.gets]

\* obj[k] = v on a plain object
SetProp(props, k, v) ==
  IF \E i \in 1..Len(props) : props[i].k = k
    THEN [i \in 1..Len(props) |-> IF props[i].k = k THEN Prop(k, v) ELSE props[i]]
    ELSE Append(props, Prop(k, v))

\* newScope[n.varName] = item; if (n.indexVarName) newScope[n.indexVarName] = i
WithLoopVars(sp, varName, item, indexVarName, i) ==
  [scope |-> Obj(IF indexVarName = <<>> THEN SetProp(sp.props, varName, item)
                 ELSE SetProp(SetProp(sp.props, varName, item), indexVarName, Num(i)), <<>>),
   gets |-> sp.gets]

\* newScope of one iteration, with the getter calls the spread made
NewScope(scopes, varName, item, indexVarName, i) ==
  WithLoopVars(Spread(IF scopes = <<>> THEN <<>> ELSE Top(scopes).props), varName, item, indexVarName, i)

KeyKey == <<"k","e","y">>

ValueKey == <<"v","a","l","u","e">>

RECURSIVE tplRenderNodes(_, _, _)
RECURSIVE RenderFrom(_, _, _, _)
RECURSIVE tplRenderIfNode(_, _, _)
RECURSIVE RenderElseIfs(_, _, _, _)
RECURSIVE tplRenderEachNode(_, _, _)
RECURSIVE EachItem(_, _, _, _, _)
RECURSIVE EachKey(_, _, _, _, _)

RenderNode(h, n, scopes) ==
  CASE n.type = "text" -> Rendered(n.value)
    [] n.type = "interp" -> RenderInterp(n, scopes)
    [] n.type = "if" -> tplRenderIfNode(h, n, scopes)
    [] n.type = "each" -> tplRenderEachNode(h, n, scopes)

\* the stack after a loop that assigned its variable in the frame it was given
LoopVarLeft(n, scopes, v) ==
  IF scopes # <<>> /\ v.t = "arr" /\ v.items # <<>>
    THEN [scopes EXCEPT ![Len(scopes)] = Obj(SetProp(@.props, n.varName, v.items[Len(v.items)]), @.proto)]
    ELSE scopes

\* a node loop in which the frames a loop wrote are seen by the nodes after it
RECURSIVE RenderFromSharedFrame(_, _, _, _)
RenderFromSharedFrame(h, nodes, i, scopes) ==
  IF i > Len(nodes) THEN Rendered(<<>>)
  ELSE Then(RenderNode(h, nodes[i], scopes),
            RenderFromSharedFrame(h, nodes, i + 1,
                                  IF nodes[i].type = "each"
                                    THEN LoopVarLeft(nodes[i], scopes, tplResolveKey(scopes, nodes[i].listExpr))
                                    ELSE scopes))

\* the loop of tplRenderNodes from node i on
RenderFrom(h, nodes, i, scopes) ==
  IF i > Len(nodes) THEN Rendered(<<>>)
  ELSE Then(RenderNode(h, nodes[i], scopes), RenderFrom(h, nodes, i + 1, scopes))

tplRenderNodes(h, nodes, scopes) == RenderFrom(h, nodes, 1, scopes)

\* a branch selection that runs what follows a test before it looks at the test
BranchAfterTheRest(ok, whenTrue, whenFalse) ==
  IF ok.err THEN Threw(ok.gets)
  ELSE IF whenFalse.err THEN Threw(ok.gets + whenFalse.gets)
  ELSE AddGets(ok.gets, IF ok.b THEN whenTrue ELSE whenFalse)

\* the branch a test selects; the test may have thrown
Branch(ok, whenTrue, whenFalse) ==
  IF ok.err THEN Threw(ok.gets) ELSE AddGets(ok.gets, IF ok.b THEN whenTrue ELSE whenFalse)

\* the loop over n.elseIfs, then the alternate
RenderElseIfs(h, n, i, scopes) ==
  IF i > Len(n.elseIfs)
    THEN IF n.alternate # 0 THEN tplRenderNodes(h, h[n.alternate], scopes) ELSE Rendered(<<>>)
  ELSE Branch(evalTest(n.elseIfs[i].test, scopes),
              tplRenderNodes(h, h[n.elseIfs[i].nodes], scopes),
              RenderElseIfs(h, n, i + 1, scopes))

tplRenderIfNode(h, n, scopes) ==
  Branch(evalTest(n.test, scopes),
         tplRenderNodes(h, h[n.consequent], scopes),
         RenderElseIfs(h, n, 1, scopes))

\* renderNodes(n.children, [ ...scopes, newScope ])
InScope(h, n, scopes, ns) == AddGets(ns.gets, tplRenderNodes(h, h[n.children], Append(scopes, ns.scope)))

\* the array arm: item i (0-based) onwards
EachItem(h, n, items, i, scopes) ==
  IF i >= Len(items) THEN Rendered(<<>>)
  ELSE Then(InScope(h, n, scopes, NewScope(scopes, n.varName, items[i + 1], n.indexVarName, i)),
            EachItem(h, n, items, i + 1, scopes))

\* entry = { key: k, value: rec[k] } for the property p of rec
Entry(p) ==
  Obj(<<Prop(KeyKey, Str(p.k)), Prop(ValueKey, IF p.acc /\ ~p.get THEN Undef ELSE p.v)>>, <<>>)

\* the object arm: the keys of Object.keys(rec) from position j on; reading
\* rec[k] runs the getter of an accessor
EachKey(h, n, keys, j, scopes) ==
  IF j > Len(keys) THEN Rendered(<<>>)
  ELSE Then(AddGets(IF keys[j].acc /\ keys[j].get THEN 1 ELSE 0,
                    InScope(h, n, scopes, NewScope(scopes, n.varName, Entry(keys[j]), <<>>, 0))),
            EachKey(h, n, keys, j + 1, scopes))

\* v = tplResolveKey(scopes, n.listExpr)
EachOver(h, n, v, scopes) ==
  IF v.t = "arr" THEN EachItem(h, n, v.items, 0, scopes)
  ELSE IF v.t = "obj" THEN EachKey(h, n, EnumProps(v.props), 1, scopes)
  ELSE Rendered(<<>>)

tplRenderEachNode(h, n, scopes) == EachOver(h, n, tplResolveKey(scopes, n.listExpr), scopes)

\* index.ts: tplRenderNodes(tplParse(tpl), data), root being list 1 of the heap
renderTemplate(h, scopes) == tplRenderNodes(h, h[1], scopes)

\* lines 41-44 of index.ts after tplParse returned
Render ==
  /\ pc = "parsed"
  /\ \E r \in {renderTemplate(heap, data)} :
       /\ out' = (IF r.err THEN <<>> ELSE r.out)
       /\ getterCalls' = r.gets
       /\ raised' = r.err
  /\ pc' = "done"
  /\ UNCHANGED <<tpl, data, idx, heap, nodesStack, controlStack, templateFilterRegistry>>

(***************************************************************************)
(* The calls modelled: renderTemplate(tpl, ...data) for templates that are *)
(* concatenations of at most MaxPieces pieces, against the data stacks     *)
(* below.                                                                  *)
(***************************************************************************)
MaxPieces == 3

\* the concatenations of at most n pieces
RECURSIVE Templates(_, _)
Templates(pieces, n) ==
  IF n = 0 THEN {<<>>}
  ELSE LET shorter == Templates(pieces, n - 1)
       IN shorter \cup {t \o pieces[k] : t \in shorter, k \in 1..Len(pieces)}

\* text, tokens that degrade with and without trim markers, a parsed token
\* with trim markers, an unterminated token and a comment
TokenPieces ==
  <<
    <<"x">>,   \* x
    <<" ", "\n">>,   \*  \n
    <<"{", "{", " ", "f", "n", "(", ")", " ", "}", "}">>,   \* {{ fn() }}
    <<"{", "{", "-", " ", "f", "n", "(", ")", " ", "-", "}", "}">>,   \* {{- fn() -}}
    <<"{", "%", "-", " ", "f", "o", "o", " ", "-", "%", "}">>,   \* {%- foo -%}
    <<"{", "%", "~", " ", "e", "n", "d", "i", "f", " ", "~", "%", "}">>,   \* {%~ endif ~%}
    <<"{", "{", " ", "|", "|", " ", "a", " ", "}", "}">>,   \* {{ || a }}
    <<"{", "{", "-", " ", "a", " ", "-", "}", "}">>,   \* {{- a -}}
    <<"{", "{", " ", "a">>,   \* {{ a
    <<"{", "#", " ", "c", " ", "#", "}">>    \* {# c #}
  >>

\* the control tokens of conditionals and loops, in any order
BlockPieces ==
  <<
    <<"{", "%", " ", "i", "f", " ", "a", " ", "%", "}">>,   \* {% if a %}
    <<"{", "%", " ", "e", "l", "s", "e", "i", "f", " ", "b", " ", "%", "}">>,   \* {% elseif b %}
    <<"{", "%", " ", "e", "l", "s", "e", " ", "%", "}">>,   \* {% else %}
    <<"{", "%", " ", "e", "n", "d", "i", "f", " ", "%", "}">>,   \* {% endif %}
    <<"{", "%", " ", "e", "a", "c", "h", " ", "x", "s", " ", "a", "s", " ", "x", " ", "%", "}">>,   \* {% each xs as x %}
    <<"{", "%", " ", "e", "n", "d", "e", "a", "c", "h", " ", "%", "}">>,   \* {% endeach %}
    <<"T">>,   \* T
    <<"{", "{", " ", "x", " ", "}", "}">>,   \* {{ x }}
    <<"{", "#", " ", "c", " ", "#", "}">>,   \* {# c #}
    <<"{", "%", " ", "i", "f">>    \* {% if
  >>

\* interpolations, loops and tests over the data below
DataPieces ==
  <<
    <<"{", "{", " ", "s", " ", "}", "}">>,   \* {{ s }}
    <<"{", "{", "=", " ", "s", " ", "}", "}">>,   \* {{= s }}
    <<"{", "{", " ", "g", " ", "}", "}">>,   \* {{ g }}
    <<"{", "{", " ", "i", "n", "h", " ", "}", "}">>,   \* {{ inh }}
    <<"{", "{", " ", "o", ".", "p", "p", " ", "}", "}">>,   \* {{ o.pp }}
    <<"{", "{", " ", "b", "a", "d", " ", "}", "}">>,   \* {{ bad }}
    <<"{", "{", " ", "n", "o", "n", "e", " ", "|", "|", " ", "s", " ", "|", " ", "u", "p", "p", "e", "r", " ", "}", "}">>,   \* {{ none || s | upper }}
    <<"{", "%", " ", "e", "a", "c", "h", " ", "x", "s", " ", "a", "s", " ", "i", "t", " ", "%", "}">>,   \* {% each xs as it %}
    <<"{", "%", " ", "e", "n", "d", "e", "a", "c", "h", " ", "%", "}">>,   \* {% endeach %}
    <<"{", "%", " ", "i", "f", " ", "o", ".", "p", "p", " ", "%", "}", "Y", "{", "%", " ", "e", "n", "d", "i", "f", " ", "%", "}">>,   \* {% if o.pp %}Y{% endif %}
    <<"{", "#", " ", "c", " ", "#", "}">>,   \* {# c #}
    <<"{", "{", " ", "s">>,   \* {{ s
    <<"Y">>    \* Y
  >>

\* { a: 'A' }
TokenData == <<Obj(<<Prop(<<"a">>, Str(<<"A">>))>>, <<>>)>>

\* { a: true, b: false, x: 'X', xs: [1] }
BlockData ==
  <<Obj(<<Prop(<<"a">>, Bool(TRUE)), Prop(<<"b">>, Bool(FALSE)), Prop(<<"x">>, Str(<<"X">>)),
          Prop(<<"x", "s">>, Arr(<<Num(1)>>))>>, <<>>)>>

\* a record with HTML specials in a string, a getter, an array, a value with an
\* inherited property, a value that shadows toString, and an inherited property
RichRoot ==
  Obj(<<Prop(<<"s">>, Str(<<"<", "b", ">", "&", "\"", "'">>)),
        Getter(<<"g">>, Str(<<"G">>)),
        Prop(<<"x", "s">>, Arr(<<Num(1), Num(2)>>)),
        Prop(<<"o">>, Obj(<<Prop(<<"q">>, Str(<<"q">>))>>, <<Prop(<<"p", "p">>, Str(<<"P">>))>>)),
        Prop(<<"b", "a", "d">>, Obj(<<Prop(ToStringKey, Num(1))>>, <<>>))>>,
      <<Prop(<<"i", "n", "h">>, Str(<<"I">>))>>)

\* an outer record whose xs is a record with a getter, and an inner record
OuterRoot ==
  Obj(<<Prop(<<"s">>, Str(<<"&", "a", "m", "p", ";">>)),
        Prop(<<"x", "s">>, Obj(<<Getter(<<"k", "1">>, Str(<<"v">>)), Prop(<<"k", "2">>, Num(3))>>, <<>>))>>, <<>>)

InnerFrame ==
  Obj(<<Prop(<<"o">>, Obj(<<>>, <<Prop(<<"p", "p">>, Str(<<"P">>))>>)),
        Getter(<<"g">>, Str(<<"G">>))>>,
      <<Prop(<<"i", "n", "h">>, Str(<<"I">>))>>)

DataStacks == {<<RichRoot>>, <<OuterRoot, InnerFrame>>, <<>>}

InitWith(templates, stacks) ==
  /\ tpl \in templates
  /\ data \in stacks
  /\ pc = "parse"
  /\ idx = 0
  /\ heap = << <<>> >>
  /\ nodesStack = <<1>>
  /\ controlStack = <<>>
  /\ out = <<>>
  /\ getterCalls = 0
  /\ raised = FALSE
  /\ templateFilterRegistry = builtInFilters

Init == InitWith(Templates(TokenPieces, MaxPieces), {TokenData})

InitBlocks == InitWith(Templates(BlockPieces, MaxPieces), {BlockData})

InitData == InitWith(Templates(DataPieces, MaxPieces), DataStacks)

Next ==
  \/ ParseTail
  \/ ParseUnterminated
  \/ ParseInterp
  \/ ParseComment
  \/ ParseControl
  \/ ParseEnd
  \/ Render

Spec == Init /\ [][Next]_vars

SpecBlocks == InitBlocks /\ [][Next]_vars

SpecData == InitData /\ [][Next]_vars

(***************************************************************************)
(* Properties of the security contract: accessors, own properties,        *)
(* escaping and the raw marker, over the behaviours of SpecData.          *)
(***************************************************************************)
Done == pc = "done"

\* the nodes of every list of the heap
HeapNodes == UNION {Range(heap[l]) : l \in 1..Len(heap)}

\* C1: no getter of the data runs at any point of renderTemplate, and a
\* key backed by an accessor renders as the empty string: after rendering,
\* the count of getter calls is zero and the output holds no character
\* that only a getter returns.
C1_AccessorsNeverInvoked ==
  Done => /\ getterCalls = 0
          /\ \A i \in 1..Len(out) : out[i] # "G"

\* o inherits k and does not own it
InheritedOnly(o, k) == o.t = "obj" /\ OwnAt(o, k) = {} /\ ProtoAt(o, k) # {}

\* walking path from cur over own data properties meets a segment that cur
\* only inherits
RECURSIVE MeetsInherited(_, _)
MeetsInherited(cur, path) ==
  /\ path # <<>>
  /\ IsObject(cur)
  /\ \/ InheritedOnly(cur, Head(path))
     \/ /\ HasOwnProperty(cur, Head(path))
        /\ ~GetOwnPropertyDescriptor(cur, Head(path)).acc
        /\ MeetsInherited(GetOwnPropertyDescriptor(cur, Head(path)).v, Tail(path))

\* the frames that own the data property k
OwningFrames(scopes, k) ==
  {i \in 1..Len(scopes) : HasOwnProperty(scopes[i], k) /\ ~GetOwnPropertyDescriptor(scopes[i], k).acc}

\* a segment of key exists only on a prototype chain: the first, which no
\* frame owns and some frame inherits, or a later one, on the way from
\* the innermost frame that owns the first
HitsInherited(scopes, key) ==
  LET parts == SplitDots(key, <<>>)
      own == OwningFrames(scopes, parts[1])
  IN IF own = {}
       THEN \E i \in 1..Len(scopes) : InheritedOnly(scopes[i], parts[1])
       ELSE MeetsInherited(
              GetOwnPropertyDescriptor(scopes[CHOOSE i \in own : \A j \in own : j <= i], parts[1]).v,
              Tail(parts))

ProbeKeys == {<<"i", "n", "h">>, <<"i", "n", "h", ".", "x">>, <<"o", ".", "p", "p">>, <<"o", ".", "p", "p", ".", "x">>, <<"o", ".", "q">>, <<"o">>, <<"s">>, <<"x", "s", ".", "l", "e", "n", "g", "t", "h">>, <<"g">>}

\* an interpolation of key alone: no fallback, no filter
PlainInterp(n) == n.type = "interp" /\ n.fallbackChain = <<>> /\ n.filters = <<>>

\* a conditional on the truthiness of one key, without elseif and else
PlainIf(n) ==
  /\ n.type = "if" /\ n.elseIfs = <<>> /\ n.alternate = 0
  /\ n.test.type = "truthy" /\ ~n.test.negated

\* C2: key resolution reads own properties only.  A dot-path with a
\* segment that exists only on the prototype chain of a frame (first
\* segment) or of an intermediate value (later segment) resolves to
\* undefined; a template that is one interpolation of such a key renders
\* '' and a template that is one conditional on it renders nothing.
C2_OwnPropertiesOnly ==
  /\ \A key \in ProbeKeys : HitsInherited(data, key) => tplResolveKey(data, key) = Undef
  /\ (Done /\ Len(heap[1]) = 1 /\ PlainInterp(heap[1][1]) /\ HitsInherited(data, heap[1][1].key))
       => (out = <<>> /\ ~raised)
  /\ (Done /\ Len(heap[1]) = 1 /\ PlainIf(heap[1][1]) /\ HitsInherited(data, heap[1][1].test.key))
       => (out = <<>> /\ ~raised)

\* a conditional on a key whose second segment is inherited was rendered
C2_Witness ==
  /\ Done /\ Len(heap[1]) = 1 /\ PlainIf(heap[1][1])
  /\ Len(SplitDots(heap[1][1].test.key, <<>>)) = 2
  /\ OwningFrames(data, SplitDots(heap[1][1].test.key, <<>>)[1]) # {}
  /\ HitsInherited(data, heap[1][1].test.key)
  /\ out = <<>>

\* none of < > " ' occurs in s and every & of s starts one of the five entities
Safe(s) ==
  \A i \in 1..Len(s) :
    /\ s[i] \notin {"<", ">", "\"", "'"}
    /\ s[i] = "&" => \E e \in {<<"&", "a", "m", "p", ";">>, <<"&", "l", "t", ";">>, <<"&", "g", "t", ";">>, <<"&", "q", "u", "o", "t", ";">>, <<"&", "#", "3", "9", ";">>} :
                        StartsWithAt(s, e, i - 1)

\* the final value of an interpolation: key, fallback chain, filter pipeline
FinalValue(n, scopes) ==
  applyTemplateFilters(ApplyChain(tplResolveKey(scopes, n.key), n.fallbackChain, scopes), n.filters)

\* the stringified final value of the interpolation n
Stringified(n, scopes) == FinalString(FinalValue(n, scopes).v).s

RawToken(key) == <<"{", "{", "=", " ">> \o key \o <<" ", "}", "}">>

EscapedToken(key) == <<"{", "{", " ">> \o key \o <<" ", "}", "}">>

\* the keys that resolve to a string
StringKeys == {key \in ProbeKeys : tplResolveKey(data, key).t = "str"}

Parsed == pc \in {"parsed", "done"}

\* the offset of the first | or ?? of expr outside quotes, from i on; the
\* length of expr when there is none
RECURSIVE OperatorAt(_, _, _)
OperatorAt(expr, i, quote) ==
  IF i >= Len(expr) THEN Len(expr)
  ELSE IF quote # "" THEN OperatorAt(expr, i + 1, IF expr[i + 1] = quote THEN "" ELSE quote)
  ELSE IF expr[i + 1] \in {"\"", "'"} THEN OperatorAt(expr, i + 1, expr[i + 1])
  ELSE IF expr[i + 1] = "|" \/ (expr[i + 1] = "?" /\ At(expr, i + 1) = "?") THEN i
  ELSE OperatorAt(expr, i + 1, "")

\* the expression of an interpolation without its raw marker
Unmarked(inner) == Trim(IF At(inner, 0) = "=" THEN SliceFrom(inner, 1) ELSE inner)

\* the left-hand expression of an interpolation: what stands before the
\* first fallback or filter operator
LeftHand(inner) == Trim(Slice(Unmarked(inner), 0, OperatorAt(Unmarked(inner), 0, "")))

\* the template is one terminated interpolation token
OneInterpToken ==
  /\ reToken(tpl, 0) = 0
  /\ Token(tpl, 0).kind = "{"
  /\ Token(tpl, 0).end # -1
  /\ Token(tpl, 0).end + 2 = Len(tpl)

\* C5: no execution from template content.  A template that is one
\* interpolation token whose left-hand expression does not match the
\* identifier/dot-path grammar parses to one Text node holding the whole
\* token, with no interpolation node, and renders as its source.
C5_NonIdentifierKeptAsText ==
  (Parsed /\ OneInterpToken /\ ~tplIsIdentifier(LeftHand(Token(tpl, 0).inner)))
    => /\ heap[1] = <<TextNode(tpl)>>
       /\ Done => out = tpl

\* C6: renderTemplate is total.  For every template and every data stack
\* of records, with the built-in filters, parsing and rendering never
\* raise.
C6_NeverRaises == ~raised

\* the text a list of Text nodes holds
RECURSIVE TextOf(_)
TextOf(nodes) == IF nodes = <<>> THEN <<>> ELSE Head(nodes).value \o TextOf(Tail(nodes))

AllText(nodes) == \A i \in 1..Len(nodes) : nodes[i].type = "text"

\* the number of opening braces of t
Braces(t) == Cardinality({i \in 1..Len(t) : t[i] = "{"})

\* C7: a block still open at the end of the source leaves no node, and
\* its opener and body are Text nodes of the AST.  For a template whose
\* only token is the opener of a block that is never closed, the AST is a
\* list of Text nodes that spell the source, and the output is the source.
C7_UnclosedBlockKeptAsText ==
  (Parsed /\ controlStack # <<>> /\ Braces(tpl) = 1)
    => /\ AllText(heap[1])
       /\ TextOf(heap[1]) = tpl
       /\ Done => out = tpl

\* the scan loop is at a terminated control token
AtControlToken ==
  /\ Scanning
  /\ reToken(tpl, idx) # -1
  /\ Token(tpl, idx).kind = "%"
  /\ Token(tpl, idx).end # -1

NoIfOnTop == controlStack = <<>> \/ Top(controlStack).kind # "if"

NoEachOnTop == controlStack = <<>> \/ Top(controlStack).kind # "each"

\* the control token with the source raw is misplaced on the open blocks
MisplacedOn(raw) ==
  \/ /\ StartsWithCI(raw, <<"e", "l", "s", "e", "i", "f">>) /\ IsWs(At(raw, 6))
     /\ (NoIfOnTop \/ Top(controlStack).inAlternate)
  \/ /\ EqualsCI(raw, <<"e", "l", "s", "e">>)
     /\ (NoIfOnTop \/ Top(controlStack).inAlternate)
  \/ EqualsCI(raw, <<"e", "n", "d", "i", "f">>) /\ NoIfOnTop
  \/ EqualsCI(raw, <<"e", "n", "d", "e", "a", "c", "h">>) /\ NoEachOnTop

Misplaced == AtControlToken /\ MisplacedOn(Token(tpl, idx).inner)

\* C8: a misplaced control token is kept as literal text and changes no
\* open block.  The step that handles a misplaced elseif, else, endif or
\* endeach leaves the stack of open blocks and the stack of node lists as
\* they were and appends the token's source as a Text node to the current
\* list.
C8_MisplacedTokenChangesNoBlock ==
  [][Misplaced =>
       /\ controlStack' = controlStack
       /\ nodesStack' = nodesStack
       /\ Top(heap'[Top(nodesStack)]) = TextNode(Token(tpl, idx).literal)]_vars

\* the parser state before the first token
EmptyParser == [heap |-> << <<>> >>, ns |-> <<1>>, cs |-> <<>>, preserved |-> FALSE]

\* the token tk degrades to literal text on the parser state P
DegradesOn(P, tk) ==
  \/ tk.kind = "{" /\ ~ParseInterpInner(tk.inner).ok
  \/ tk.kind = "%" /\ ControlToken(P, tk.inner, tk.literal).preserved

\* from offset i on, every token of t is unterminated or degrades to
\* literal text while no block is open
RECURSIVE OnlyDegrading(_, _)
OnlyDegrading(t, i) ==
  \/ i >= Len(t)
  \/ reToken(t, i) = -1
  \/ Token(t, i).end = -1
  \/ DegradesOn(EmptyParser, Token(t, i)) /\ OnlyDegrading(t, Token(t, i).end + 2)

\* the start of the unterminated token of such a template, -1 for none
RECURSIVE UnterminatedAt(_, _)
UnterminatedAt(t, i) ==
  IF i >= Len(t) \/ reToken(t, i) = -1 THEN -1
  ELSE IF Token(t, i).end = -1 THEN Token(t, i).start
  ELSE UnterminatedAt(t, Token(t, i).end + 2)

DegradingMarked ==
  /\ Scanning
  /\ reToken(tpl, idx) # -1
  /\ Token(tpl, idx).end # -1
  /\ Token(tpl, idx).openTrimMode # "none" \/ Token(tpl, idx).closeTrimMode # "none"
  /\ DegradesOn(Parser, Token(tpl, idx))

\* the text between the cursor and the token, as nodes
PreText(t, i, start) == IF start > i THEN <<TextNode(Slice(t, i, start))>> ELSE <<>>

\* C10: trim markers act only on tokens parsed into a node.  The step
\* that handles a degrading interpolation or control token with - or ~
\* markers appends the text before it unchanged and then the token's
\* source, and leaves the cursor right after the token, so that no
\* whitespace or newline after it is skipped.
C10_DegradedTokenTrimsNothing ==
  [][DegradingMarked =>
       /\ heap'[Top(nodesStack)] =
            heap[Top(nodesStack)] \o PreText(tpl, idx, Token(tpl, idx).start)
                                  \o <<TextNode(Token(tpl, idx).literal)>>
       /\ idx' = Token(tpl, idx).end + 2]_vars

\* a degraded token with markers stands between whitespace, all of it rendered
C10_Witness ==
  /\ Done
  /\ Len(heap[1]) = 3 /\ AllText(heap[1])
  /\ heap[1][1].value = <<" ", "\n">> /\ heap[1][3].value = <<" ", "\n">>
  /\ toTrimMode(At(heap[1][2].value, 2)) # "none"
  /\ out = tpl

(***************************************************************************)
(* Whitespace control: the calls of renderTemplate on templates made of    *)
(* newlines, blanks and tokens with and without the ~ marker.              *)
(***************************************************************************)
WsPieces ==
  <<
    <<"\n">>,   \* \n
    <<"\r">>,   \* 
    <<" ">>,   \*  
    <<"A">>,   \* A
    <<"{", "%", " ", "i", "f", " ", "a", " ", "%", "}">>,   \* {% if a %}
    <<"{", "%", " ", "e", "n", "d", "i", "f", " ", "%", "}">>,   \* {% endif %}
    <<"{", "%", " ", "i", "f", " ", "a", " ", "~", "%", "}">>,   \* {% if a ~%}
    <<"{", "%", "~", " ", "e", "n", "d", "i", "f", " ", "%", "}">>,   \* {%~ endif %}
    <<"{", "{", "~", " ", "a", " ", "~", "}", "}">>,   \* {{~ a ~}}
    <<"{", "{", " ", "a", " ", "}", "}">>,   \* {{ a }}
    <<"{", "#", " ", "c", " ", "#", "}">>,   \* {# c #}
    <<"{", "#", "~", " ", "c", " ", "~", "#", "}">>,   \* {#~ c ~#}
    <<"{", "%", " ", "f", "o", "o", " ", "%", "}">>,   \* {% foo %}
    <<"{", "{", " ", "a">>    \* {{ a
  >>

InitWs == InitWith(Templates(WsPieces, MaxPieces), {TokenData})

SpecWs == InitWs /\ [][Next]_vars

\* the scan loop is at a terminated token
AtToken == Scanning /\ reToken(tpl, idx) # -1 /\ Token(tpl, idx).end # -1

\* the token the scan loop is at becomes a node or, a comment, is dropped
Consumed(tk) ==
  \/ tk.kind = "#"
  \/ tk.kind = "{" /\ ParseInterpInner(tk.inner).ok
  \/ tk.kind = "%" /\ ~ControlToken(Parser, tk.inner, tk.literal).preserved

\* the length of the newline sequence \r\n or \n of t at offset i, 0 for none
NewlineLen(t, i) ==
  IF At(t, i) = "\r" /\ At(t, i + 1) = "\n" THEN 2
  ELSE IF At(t, i) = "\n" THEN 1
  ELSE 0

\* C11: a parsed control token closed by a plain %} consumes exactly one
\* newline sequence, \r\n or \n, directly after its closer and no other
\* character; an interpolation or a comment closed without a marker and a
\* control token kept as literal text consume nothing after their closer.
C11_OneNewlineAfterControl ==
  [][(AtToken /\ Token(tpl, idx).closeTrimMode = "none") =>
       idx' = Token(tpl, idx).end + 2
              + (IF Token(tpl, idx).kind = "%" /\ Consumed(Token(tpl, idx))
                   THEN NewlineLen(tpl, Token(tpl, idx).end + 2) ELSE 0)]_vars

\* whitespace other than \r and \n
Blank(c) == IsWs(c) /\ c \notin {"\r", "\n"}

\* s is pre without blanks at its end, and only blanks were removed
BlanksCut(pre, s) ==
  /\ Len(s) <= Len(pre)
  /\ s = SubSeq(pre, 1, Len(s))
  /\ \A k \in (Len(s) + 1)..Len(pre) : Blank(pre[k])
  /\ s = <<>> \/ ~Blank(s[Len(s)])

\* from offset i the cursor j skipped blanks only, and all of them
BlanksSkipped(t, i, j) ==
  /\ i <= j /\ j <= Len(t)
  /\ \A k \in (i + 1)..j : Blank(t[k])
  /\ j = Len(t) \/ ~Blank(t[j + 1])

\* the scan loop is at a consumed token with the ~ marker on its opener and
\* text before it
AtTildeOpener ==
  /\ AtToken /\ Consumed(Token(tpl, idx))
  /\ Token(tpl, idx).openTrimMode = "no-newlines"
  /\ Token(tpl, idx).start > idx

AtTildeCloser ==
  /\ AtToken /\ Consumed(Token(tpl, idx))
  /\ Token(tpl, idx).closeTrimMode = "no-newlines"

\* C12: the ~ marker never crosses a newline.  On the opener of a consumed
\* token the text before it loses its trailing blanks after its last \r or
\* \n and nothing else; on the closer the cursor skips the blanks up to
\* the next \r or \n and nothing else, so that a control token closed with
\* ~%} keeps the newline that follows it.
C12_TildeKeepsNewlines ==
  [][/\ AtTildeOpener =>
          /\ Len(heap'[Top(nodesStack)]) > Len(heap[Top(nodesStack)])
          /\ heap'[Top(nodesStack)][Len(heap[Top(nodesStack)]) + 1].type = "text"
          /\ BlanksCut(Slice(tpl, idx, Token(tpl, idx).start),
                       heap'[Top(nodesStack)][Len(heap[Top(nodesStack)]) + 1].value)
     /\ AtTildeCloser => BlanksSkipped(tpl, Token(tpl, idx).end + 2, idx')]_vars

\* a conditional opened with ~%} before a blank and a newline was rendered:
\* the blank is gone and the newline is kept
C12_Witness ==
  /\ Done
  /\ tpl = WsPieces[7] \o WsPieces[3] \o WsPieces[1]
  /\ Len(heap) = 2 /\ heap[2] = <<TextNode(WsPieces[1])>>

(***************************************************************************)
(* Fallback chains: one interpolation of a key followed by at most         *)
(* MaxLinks links, against a record that holds a value of every kind the   *)
(* links tell apart.                                                       *)
(***************************************************************************)
MaxLinks == 2

\* { z: 0, f: false, e: '', l: [], r: {}, n: null, v: 'V' }; u is absent
FallbackData ==
  <<Obj(<<Prop(<<"z">>, Num(0)), Prop(<<"f">>, Bool(FALSE)), Prop(<<"e">>, Str(<<>>)),
          Prop(<<"l">>, Arr(<<>>)), Prop(<<"r">>, Obj(<<>>, <<>>)), Prop(<<"n">>, Null),
          Prop(<<"v">>, Str(<<"V">>))>>, <<>>)>>

FallbackKeys == {<<"z">>, <<"f">>, <<"e">>, <<"l">>, <<"r">>, <<"n">>, <<"v">>, <<"u">>}

\* the right-hand sides written in the links: keys and the literal 'D'
FallbackRights == {<<"z">>, <<"e">>, <<"n">>, <<"v">>, <<"'", "D", "'">>}

FallbackOps == {<<"|", "|">>, <<"?", "?">>}

\* the source text of the chains of at most n links
RECURSIVE ChainTexts(_)
ChainTexts(n) ==
  IF n = 0 THEN {<<>>}
  ELSE LET shorter == ChainTexts(n - 1)
       IN shorter \cup {c \o <<" ">> \o op \o <<" ">> \o r : c \in shorter, op \in FallbackOps, r \in FallbackRights}

FallbackTemplates ==
  {<<"{", "{", " ">> \o k \o c \o <<" ", "}", "}">> : k \in FallbackKeys, c \in ChainTexts(MaxLinks)}

InitFallback == InitWith(FallbackTemplates \cup Templates(TokenPieces, MaxPieces), {FallbackData})

SpecFallback == InitFallback /\ [][Next]_vars

\* absent or null
Nullish(v) == v = Undef \/ v = Null

\* absent, null, '', an empty array or an empty record
EmptyIsh(v) == Nullish(v) \/ v = Str(<<>>) \/ v = Arr(<<>>) \/ v = Obj(<<>>, <<>>)

\* the value the record of FallbackData holds for an operand
ValueIn(e) ==
  IF e.kind = "literal" THEN e.value
  ELSE LET ps == {i \in 1..Len(FallbackData[1].props) : FallbackData[1].props[i].k = e.key}
       IN IF ps = {} THEN Undef ELSE FallbackData[1].props[CHOOSE i \in ps : TRUE].v

\* the running value after the first i links of chain
RECURSIVE Running(_, _, _)
Running(v0, chain, i) ==
  IF i = 0 THEN v0
  ELSE LET v == Running(v0, chain, i - 1)
       IN IF \/ chain[i].op = "or" /\ EmptyIsh(v)
             \/ chain[i].op = "nullish" /\ Nullish(v)
            THEN ValueIn(chain[i].right)
            ELSE v

\* the text an escaped interpolation prints for the values of FallbackData
Printed(v) ==
  IF v = Num(0) THEN <<"0">>
  ELSE IF v = Bool(FALSE) THEN <<"f", "a", "l", "s", "e">>
  ELSE IF v = Obj(<<>>, <<>>) THEN <<"[", "o", "b", "j", "e", "c", "t", " ", "O", "b", "j", "e", "c", "t", "]">>
  ELSE IF v.t = "str" THEN v.s
  ELSE <<>>

\* the template was one interpolation with a fallback chain and was rendered
FallbackDone ==
  /\ Done /\ data = FallbackData
  /\ Len(heap[1]) = 1 /\ heap[1][1].type = "interp"
  /\ heap[1][1].filters = <<>> /\ heap[1][1].mode = "escape"

\* the template is {{ k op 'D' }}
OneLink(k, op) == tpl = <<"{", "{", " ">> \o k \o <<" ">> \o op \o <<" ", "'", "D", "'", " ", "}", "}">>

\* C13: a fallback chain is applied left to right on the running value: a
\* || link replaces it iff it is absent, null, '', an empty array or an empty
\* record, a ?? link iff it is absent or null.  0 and false are replaced by
\* neither, and '', [] and {} by || but not by ??.
C13_FallbackChain ==
  FallbackDone =>
    /\ ~raised
    /\ out = Printed(Running(ValueIn([kind |-> "key", key |-> heap[1][1].key]),
                             heap[1][1].fallbackChain, Len(heap[1][1].fallbackChain)))
    /\ heap[1][1].key = <<"z">> => out = <<"0">>
    /\ heap[1][1].key = <<"f">> => out = <<"f", "a", "l", "s", "e">>
    /\ \A k \in {<<"e">>, <<"l">>, <<"r">>, <<"n">>, <<"u">>} : OneLink(k, <<"|", "|">>) => out = <<"D">>
    /\ \A k \in {<<"n">>, <<"u">>} : OneLink(k, <<"?", "?">>) => out = <<"D">>
    /\ \A k \in {<<"e">>, <<"l">>} : OneLink(k, <<"?", "?">>) => out = <<>>
    /\ OneLink(<<"r">>, <<"?", "?">>) => out = <<"[", "o", "b", "j", "e", "c", "t", " ", "O", "b", "j", "e", "c", "t", "]">>

\* {{ u || e ?? 'D' }} was rendered: the absent value was replaced by '',
\* which the ?? link kept
C13_Witness ==
  /\ FallbackDone
  /\ tpl = <<"{", "{", " ", "u", " ", "|", "|", " ", "e", " ", "?", "?", " ", "'", "D", "'", " ", "}", "}">>
  /\ Len(heap[1][1].fallbackChain) = 2
  /\ out = <<>>

(***************************************************************************)
(* The filter registry: registerTemplateFilter calls made before a call of *)
(* renderTemplate on one interpolation with a pipeline of at most          *)
(* MaxFilters filter calls.                                                *)
(***************************************************************************)
MaxFilters == 2

\* lines 30-38, called before renderTemplate: a TypeError leaves the caller
Register(name, handler) ==
  /\ pc = "parse" /\ idx = 0
  /\ \E r \in {registerTemplateFilter(templateFilterRegistry, name, handler)} :
       /\ templateFilterRegistry' = r.registry
       /\ raised' = r.threw
  /\ UNCHANGED <<tpl, data, pc, idx, heap, nodesStack, controlStack, out, getterCalls>>

\* names that match the rule and names that do not: an upper-case first
\* letter, a first digit, a dash, a blank, a trailing newline, the empty name
RegisterNames ==
  {<<"u", "p", "p", "e", "r">>, <<"b", "r", "a", "c", "k", "e", "t", "s">>, <<"U", "p", "p", "e", "r">>, <<"1", "a">>, <<"h", "a", "s", "-", "d", "a", "s", "h">>, <<"a", " ", "b">>, <<"u", "p", "\n">>, <<>>}

\* two functions and a number
RegisterHandlers == {Fn("brackets"), Fn("prefix"), Num(42)}

\* { s: 'aB' }
FilterData == <<Obj(<<Prop(<<"s">>, Str(<<"a", "B">>))>>, <<>>)>>

\* filter calls as they are written, three of them not registered at load
FilterCalls ==
  {<<"u", "p", "p", "e", "r">>, <<"l", "o", "w", "e", "r">>, <<"r", "e", "p", "l", "a", "c", "e", "(", "'", "a", "'", ",", "'", "b", "'", ")">>, <<"b", "r", "a", "c", "k", "e", "t", "s">>, <<"p", "r", "e", "f", "i", "x", "(", "'", "p", "'", ")">>,
   <<"n", "o", "s", "u", "c", "h">>, <<"t", "o", "S", "t", "r", "i", "n", "g">>, <<"c", "o", "n", "s", "t", "r", "u", "c", "t", "o", "r">>}

RECURSIVE PipelineTexts(_)
PipelineTexts(n) ==
  IF n = 0 THEN {<<>>}
  ELSE LET shorter == PipelineTexts(n - 1)
       IN shorter \cup {p \o <<" ", "|", " ">> \o c : p \in shorter, c \in FilterCalls}

FilterTemplates == {<<"{", "{", " ", "s">> \o p \o <<" ", "}", "}">> : p \in PipelineTexts(MaxFilters)}

\* text, a comment, a control token and an unterminated token
PlainPieces == <<<<"T">>, <<"{", "#", " ", "c", " ", "#", "}">>, <<"{", "%", " ", "f", "o", "o", " ", "%", "}">>, <<"{", "{", " ", "s">>>>

InitRegistry == InitWith(FilterTemplates \cup Templates(PlainPieces, MaxPieces), {FilterData})

NextRegistry ==
  \/ \E name \in RegisterNames, handler \in RegisterHandlers : Register(name, handler)
  \/ Next

SpecRegistry == InitRegistry /\ [][NextRegistry]_vars

\* the template was one interpolation of s with a pipeline and was rendered
PipelineDone ==
  /\ Done /\ data = FilterData
  /\ Len(heap[1]) = 1 /\ heap[1][1].type = "interp" /\ heap[1][1].key = <<"s">>
  /\ heap[1][1].fallbackChain = <<>> /\ heap[1][1].mode = "escape"

\* the filter call f has a handler in the registry
Registered(f) == f.name \in DOMAIN templateFilterRegistry

\* the value after the first i filter calls: the handler of call i on the
\* value after the calls before it and on the arguments of call i
RECURSIVE Piped(_, _, _)
Piped(v0, filters, i) ==
  IF i = 0 THEN v0
  ELSE IF Registered(filters[i])
    THEN ApplyHandler(templateFilterRegistry[filters[i].name], Piped(v0, filters, i - 1), filters[i].args).v
  ELSE Piped(v0, filters, i - 1)

\* the template is {{ s | c1 | c2 }}
TwoCalls(c1, c2) == tpl = <<"{", "{", " ", "s", " ", "|", " ">> \o c1 \o <<" ", "|", " ">> \o c2 \o <<" ", "}", "}">>

BuiltInsOnly == templateFilterRegistry = builtInFilters

\* C14: the pipeline runs the handlers of the filter calls in source order,
\* each on the previous result and its own arguments; a call whose name is
\* not in the registry changes neither the value nor the output, whatever
\* the name, and the output is that of the registered calls alone.
C14_PipelineInSourceOrder ==
  PipelineDone =>
    /\ out = escapeHtml(Piped(Str(<<"a", "B">>), heap[1][1].filters, Len(heap[1][1].filters)).s)
    /\ applyTemplateFilters(Str(<<"a", "B">>), heap[1][1].filters).v
         = applyTemplateFilters(Str(<<"a", "B">>), SelectSeq(heap[1][1].filters, Registered)).v
    /\ (\A f \in Range(heap[1][1].filters) : ~Registered(f)) => out = <<"a", "B">>
    /\ (BuiltInsOnly /\ TwoCalls(<<"u", "p", "p", "e", "r">>, <<"l", "o", "w", "e", "r">>)) => out = <<"a", "b">>
    /\ (BuiltInsOnly /\ TwoCalls(<<"l", "o", "w", "e", "r">>, <<"u", "p", "p", "e", "r">>)) => out = <<"A", "B">>
    /\ (BuiltInsOnly /\ TwoCalls(<<"u", "p", "p", "e", "r">>, <<"r", "e", "p", "l", "a", "c", "e", "(", "'", "a", "'", ",", "'", "b", "'", ")">>)) => out = <<"A", "B">>
    /\ (BuiltInsOnly /\ TwoCalls(<<"r", "e", "p", "l", "a", "c", "e", "(", "'", "a", "'", ",", "'", "b", "'", ")">>, <<"u", "p", "p", "e", "r">>)) => out = <<"B", "B">>
    /\ (BuiltInsOnly /\ TwoCalls(<<"t", "o", "S", "t", "r", "i", "n", "g">>, <<"u", "p", "p", "e", "r">>)) => out = <<"A", "B">>
    /\ (BuiltInsOnly /\ TwoCalls(<<"u", "p", "p", "e", "r">>, <<"c", "o", "n", "s", "t", "r", "u", "c", "t", "o", "r">>)) => out = <<"A", "B">>

\* {{ s | nosuch | upper }} was rendered after prefix was registered as
\* brackets: the unregistered call was skipped and upper ran
C14_Witness ==
  /\ PipelineDone
  /\ TwoCalls(<<"n", "o", "s", "u", "c", "h">>, <<"u", "p", "p", "e", "r">>)
  /\ templateFilterRegistry # builtInFilters
  /\ out = <<"A", "B">>

\* a name that matches ^[a-z][\w]*$
MatchesNameRule(name) ==
  /\ Len(name) >= 1
  /\ name[1] \in LowerSet
  /\ \A i \in 2..Len(name) : name[i] \in LowerSet \cup UpperSet \cup DigitSet \cup {"_"}

\* reg with name mapped to handler and every other name as it was
Overridden(reg, name, handler) ==
  /\ DOMAIN templateFilterRegistry' = DOMAIN reg \cup {name}
  /\ templateFilterRegistry'[name] = handler
  /\ \A n \in DOMAIN reg \ {name} : templateFilterRegistry'[n] = reg[n]

\* C15: a registerTemplateFilter call with a name that matches ^[a-z][\w]*$
\* and a function makes the registry map the name to that function,
\* built-in names included, and leaves every other name as it was; a call
\* with any other name or with a handler that is not a function raises its
\* TypeError and leaves the registry as it was.  No other step changes the
\* registry, so that it maps each name to the handler of the most recent
\* successful registration.
C15_RegistryHoldsLastRegistration ==
  [][/\ \A name \in RegisterNames, handler \in RegisterHandlers :
          Register(name, handler) =>
            IF MatchesNameRule(name) /\ handler.t = "fn"
              THEN ~raised' /\ Overridden(templateFilterRegistry, name, handler)
              ELSE raised' /\ templateFilterRegistry' = templateFilterRegistry
     /\ templateFilterRegistry' # templateFilterRegistry =>
          \E name \in RegisterNames, handler \in RegisterHandlers : Register(name, handler)]_vars

\* the built-in upper was overridden by a registration of brackets under
\* its name, and {{ s | upper }} was rendered by the override
C15_Witness ==
  /\ Done /\ data = FilterData
  /\ tpl = <<"{", "{", " ", "s", " ", "|", " ", "u", "p", "p", "e", "r", " ", "}", "}">>
  /\ templateFilterRegistry[<<"u", "p", "p", "e", "r">>] = Fn("brackets")
  /\ <<"b", "r", "a", "c", "k", "e", "t", "s">> \notin DOMAIN templateFilterRegistry
  /\ out = <<"[", "a", "B", "]">>

(***************************************************************************)
(* Loops and the scope stack: templates that read the loop variable and    *)
(* the index variable before, inside and after a loop, against a record    *)
(* that holds keys of the same names.                                      *)
(***************************************************************************)
EachPieces ==
  <<<<"{", "{", " ", "i", "t", " ", "}", "}", "|">>,
    <<"{", "%", " ", "e", "a", "c", "h", " ", "i", "t", "e", "m", "s", " ", "a", "s", " ", "i", "t", " ", "%", "}", "(", "{", "{", " ", "i", "t", " ", "}", "}", ")", "{", "%", " ", "e", "n", "d", "e", "a", "c", "h", " ", "%", "}">>,
    <<"|", "{", "{", " ", "i", "t", " ", "}", "}">>,
    <<"{", "%", " ", "e", "a", "c", "h", " ", "i", "t", "e", "m", "s", " ", "a", "s", " ", "i", "t", ",", " ", "i", " ", "%", "}", "(", "{", "{", " ", "i", " ", "}", "}", ")", "{", "%", " ", "e", "n", "d", "e", "a", "c", "h", " ", "%", "}">>,
    <<"{", "{", " ", "i", " ", "}", "}">>,
    <<"{", "%", " ", "e", "a", "c", "h", " ", "r", "e", "c", " ", "a", "s", " ", "i", "t", " ", "%", "}", "(", "{", "{", " ", "i", "t", ".", "k", "e", "y", " ", "}", "}", ")", "{", "%", " ", "e", "n", "d", "e", "a", "c", "h", " ", "%", "}">>,
    <<"{", "%", " ", "e", "a", "c", "h", " ", "i", "t", "e", "m", "s", " ", "a", "s", " ", "i", "t", " ", "%", "}", "{", "%", " ", "e", "a", "c", "h", " ", "r", "e", "c", " ", "a", "s", " ", "i", "t", " ", "%", "}", "{", "%", " ", "e", "n", "d", "e", "a", "c", "h", " ", "%", "}", "[", "{", "{", " ", "i", "t", " ", "}", "}", "]", "{", "%", " ", "e", "n", "d", "e", "a", "c", "h", " ", "%", "}">>,
    <<"{", "#", " ", "c", " ", "#", "}">>,
    <<"{", "#", " ", "c">>>>

\* { it: 'OUT', i: 'I', items: ['A', 'B'], rec: { k: 'v' } }
EachData ==
  <<Obj(<<Prop(<<"i", "t">>, Str(<<"O", "U", "T">>)), Prop(<<"i">>, Str(<<"I">>)),
          Prop(<<"i", "t", "e", "m", "s">>, Arr(<<Str(<<"A">>), Str(<<"B">>)>>)),
          Prop(<<"r", "e", "c">>, Obj(<<Prop(<<"k">>, Str(<<"v">>))>>, <<>>))>>, <<>>)>>

InitEach == InitWith(Templates(EachPieces, MaxPieces), {EachData})

SpecEach == InitEach /\ [][Next]_vars

\* the output of the nodes of list l from position i on, each rendered by
\* itself against the stack the call was given
RECURSIVE EachAlone(_, _)
EachAlone(l, i) ==
  IF i > Len(heap[l]) THEN <<>>
  ELSE RenderNode(heap, heap[l][i], data).out \o EachAlone(l, i + 1)

\* the root holds a loop followed by an interpolation
LoopThenInterp ==
  \E i \in 1..Len(heap[1]), j \in 1..Len(heap[1]) :
    i < j /\ heap[1][i].type = "each" /\ heap[1][j].type = "interp"

\* C16: rendering a loop leaves the scope stack it was given and its frames
\* unchanged.  Every root node renders as it does by itself against the
\* stack of the call, so that after a loop a key named like its variable
\* or its index variable resolves as before the loop; after an inner loop
\* the variable of the enclosing loop is the enclosing item again.
C16_EachLeavesScopesUnchanged ==
  (Done /\ data = EachData) =>
    /\ ~raised
    /\ out = EachAlone(1, 1)
    /\ tpl = EachPieces[1] \o EachPieces[2] \o EachPieces[3] => out = <<"O", "U", "T", "|", "(", "A", ")", "(", "B", ")", "|", "O", "U", "T">>
    /\ tpl = EachPieces[4] \o EachPieces[5] => out = <<"(", "0", ")", "(", "1", ")", "I">>
    /\ tpl = EachPieces[6] \o EachPieces[3] => out = <<"(", "k", ")", "|", "O", "U", "T">>
    /\ tpl = EachPieces[7] => out = <<"[", "A", "]", "[", "B", "]">>

\* {{ it }}|{% each items as it %}({{ it }}){% endeach %}|{{ it }} was rendered
C16_Witness ==
  /\ Done /\ data = EachData /\ LoopThenInterp
  /\ tpl = EachPieces[1] \o EachPieces[2] \o EachPieces[3]
  /\ out = <<"O", "U", "T", "|", "(", "A", ")", "(", "B", ")", "|", "O", "U", "T">>

(***************************************************************************)
(* Conditionals: one if block with at most MaxElseIfs elseif branches and  *)
(* an optional else, over tests that are true, false, or throw when they   *)
(* are evaluated.                                                          *)
(***************************************************************************)
MaxElseIfs == 2

\* { t: true, f: false, v: 'V', bad: { toString: 1 } }
IfData ==
  <<Obj(<<Prop(<<"t">>, Bool(TRUE)), Prop(<<"f">>, Bool(FALSE)), Prop(<<"v">>, Str(<<"V">>)),
          Prop(<<"b", "a", "d">>, Obj(<<Prop(ToStringKey, Num(1))>>, <<>>))>>, <<>>)>>

\* a true test, a false test, and a test whose evaluation throws
IfTests == {<<"t">>, <<"f">>, <<"b", "a", "d", " ", ">", " ", "1">>}

\* the elseif branches of at most n tests; the branch after i others prints i + 2
RECURSIVE ElseIfTexts(_)
ElseIfTexts(n) ==
  IF n = 0 THEN {[text |-> <<>>, count |-> 0]}
  ELSE LET shorter == ElseIfTexts(n - 1)
       IN shorter \cup
          {[text |-> b.text \o <<"{", "%", " ", "e", "l", "s", "e", "i", "f", " ">> \o k \o <<" ", "%", "}">> \o NatDigits(b.count + 2) \o <<"{", "{", " ", "v", " ", "}", "}">>,
            count |-> b.count + 1] : b \in {c \in shorter : c.count = n - 1}, k \in IfTests}

IfTemplates ==
  {<<"{", "%", " ", "i", "f", " ">> \o k \o <<" ", "%", "}", "1", "{", "{", " ", "v", " ", "}", "}">> \o b.text \o e \o <<"{", "%", " ", "e", "n", "d", "i", "f", " ", "%", "}">> :
     k \in IfTests, b \in ElseIfTexts(MaxElseIfs), e \in {<<>>, <<"{", "%", " ", "e", "l", "s", "e", " ", "%", "}", "E", "{", "{", " ", "v", " ", "}", "}">>}}

InitIf == InitWith(IfTemplates \cup Templates(PlainPieces, MaxPieces), {IfData})

SpecIf == InitIf /\ [][Next]_vars

\* the template was one conditional and its rendering returned or threw
IfDone ==
  /\ Done /\ data = IfData /\ tpl \in IfTemplates
  /\ Len(heap[1]) = 1 /\ heap[1][1].type = "if"

\* the tests of the conditional n in source order, and the lists they select
TestsOf(n) == <<n.test>> \o [i \in 1..Len(n.elseIfs) |-> n.elseIfs[i].test]

ListsOf(n) == <<n.consequent>> \o [i \in 1..Len(n.elseIfs) |-> n.elseIfs[i].nodes]

\* test i of n is false, and evaluating it does not throw
IsFalse(n, i) == ~evalTest(TestsOf(n)[i], data).err /\ ~evalTest(TestsOf(n)[i], data).b

IsTrue(n, i) == ~evalTest(TestsOf(n)[i], data).err /\ evalTest(TestsOf(n)[i], data).b

\* test i is the first true test of n, the tests before it being false
FirstTrue(n, i) == IsTrue(n, i) /\ \A j \in 1..(i - 1) : IsFalse(n, j)

\* some test after test i of n throws when it is evaluated
LaterThrows(n, i) == \E j \in (i + 1)..Len(TestsOf(n)) : evalTest(TestsOf(n)[j], data).err

\* the template is {% if k1 %}1{{ v }}{% elseif k2 %}2{{ v }}{% else %}E{{ v }}{% endif %}
IfElseIfElse(k1, k2) ==
  tpl = <<"{", "%", " ", "i", "f", " ">> \o k1 \o <<" ", "%", "}", "1", "{", "{", " ", "v", " ", "}", "}", "{", "%", " ", "e", "l", "s", "e", "i", "f", " ">> \o k2 \o <<" ", "%", "}", "2", "{", "{", " ", "v", " ", "}", "}", "{", "%", " ", "e", "l", "s", "e", " ", "%", "}", "E", "{", "{", " ", "v", " ", "}", "}", "{", "%", " ", "e", "n", "d", "i", "f", " ", "%", "}">>

\* C17: a conditional renders at most one branch.  The tests are evaluated
\* in the order if, elseif 1..n; the first true one selects its list and
\* no later test is evaluated, so that a later test that would throw does
\* not; when every test is false the else list is rendered if there is one
\* and nothing otherwise.  The selected list is rendered against the scope
\* stack of the conditional.
C17_FirstTrueBranchOnly ==
  IfDone =>
    /\ \A i \in 1..Len(TestsOf(heap[1][1])) :
         FirstTrue(heap[1][1], i) =>
           /\ ~raised
           /\ out = tplRenderNodes(heap, heap[ListsOf(heap[1][1])[i]], data).out
           /\ out = NatDigits(i) \o <<"V">>
    /\ (\A i \in 1..Len(TestsOf(heap[1][1])) : IsFalse(heap[1][1], i)) =>
         /\ ~raised
         /\ out = (IF heap[1][1].alternate # 0 THEN <<"E", "V">> ELSE <<>>)
    /\ IfElseIfElse(<<"t">>, <<"t">>) => out = <<"1", "V">>
    /\ IfElseIfElse(<<"t">>, <<"b", "a", "d", " ", ">", " ", "1">>) => (out = <<"1", "V">> /\ ~raised)
    /\ IfElseIfElse(<<"f">>, <<"t">>) => out = <<"2", "V">>
    /\ IfElseIfElse(<<"f">>, <<"f">>) => out = <<"E", "V">>

\* the second of three tests was the first true one and the third, which
\* throws when it is evaluated, was not evaluated
C17_Witness ==
  /\ IfDone
  /\ Len(TestsOf(heap[1][1])) = 3
  /\ FirstTrue(heap[1][1], 2) /\ LaterThrows(heap[1][1], 2)
  /\ out = <<"2", "V">> /\ ~raised

(***************************************************************************)
(* Test expressions: the texts the grammar                                 *)
(*   Or -> And (|| And)*,  And -> Unary (&& Unary)*,                       *)
(*   Unary -> (! | not) Unary | Primary,  Primary -> key | ( Or )          *)
(* derives in at most MaxRounds rounds from a true key, a false key and    *)
(* their parenthesised pairs, each with the boolean it denotes when it is  *)
(* read by that grammar.                                                   *)
(***************************************************************************)
MaxRounds == 2

\* { t: true, f: false }
TestData == <<Obj(<<Prop(<<"t">>, Bool(TRUE)), Prop(<<"f">>, Bool(FALSE))>>, <<>>)>>

\* [text, val, lvl]: lvl is "U" for a Unary, "A" for an And of two or more
\* Unary, "O" for an Or of two or more And
KeyExprs == {[text |-> <<"t">>, val |-> TRUE, lvl |-> "U"], [text |-> <<"f">>, val |-> FALSE, lvl |-> "U"]}

Negated(es) ==
  {[text |-> n \o e.text, val |-> ~e.val, lvl |-> "U"] : e \in {x \in es : x.lvl = "U"}, n \in {<<"!">>, <<"n", "o", "t", " ">>}}

Conjoined(ls, rs) ==
  {[text |-> l.text \o <<" ", "&", "&", " ">> \o r.text, val |-> l.val /\ r.val, lvl |-> "A"] :
     l \in {x \in ls : x.lvl \in {"U", "A"}}, r \in {x \in rs : x.lvl = "U"}}

Disjoined(ls, rs) ==
  {[text |-> l.text \o <<" ", "|", "|", " ">> \o r.text, val |-> l.val \/ r.val, lvl |-> "O"] :
     l \in ls, r \in {x \in rs : x.lvl \in {"U", "A"}}}

Parenthesised(es) == {[text |-> <<"(">> \o e.text \o <<")">>, val |-> e.val, lvl |-> "U"] : e \in es}

\* the right-hand operands of || : a key or a conjunction of two keys
RightExprs == KeyExprs \cup Conjoined(KeyExprs, KeyExprs)

\* the operands the rounds start from: a key or a parenthesised pair of keys
Operands ==
  KeyExprs \cup Parenthesised(Conjoined(KeyExprs, KeyExprs) \cup Disjoined(KeyExprs, KeyExprs))

RECURSIVE TestExprs(_)
TestExprs(n) ==
  IF n = 0 THEN Operands
  ELSE LET es == TestExprs(n - 1)
       IN es \cup Negated(es) \cup Conjoined(es, KeyExprs) \cup Disjoined(es, RightExprs)

\* {% if e %}{{ t }}{% else %}N{% endif %}
TestTemplate(e) == <<"{", "%", " ", "i", "f", " ">> \o e \o <<" ", "%", "}", "{", "{", " ", "t", " ", "}", "}", "{", "%", " ", "e", "l", "s", "e", " ", "%", "}", "N", "{", "%", " ", "e", "n", "d", "i", "f", " ", "%", "}">>

TestTemplates == {TestTemplate(e.text) : e \in TestExprs(MaxRounds)}

\* the output of each of them when the expression is read by the grammar
Expected ==
  {<<TestTemplate(e.text), IF e.val THEN <<"t", "r", "u", "e">> ELSE <<"N">>>> : e \in TestExprs(MaxRounds)}

InitTests == InitWith(TestTemplates \cup Templates(PlainPieces, MaxPieces), {TestData})

SpecTests == InitTests /\ [][Next]_vars

\* the template is the conditional on the expression e and was rendered
TestDone(e) == Done /\ data = TestData /\ tpl = TestTemplate(e)

\* C18: test expressions follow the precedence NOT > AND > OR, and
\* parentheses override it: a conditional on an expression over keys, &&,
\* ||, !, not and parentheses renders its first branch iff the boolean
\* formula read with that precedence over the truthiness of the keys is
\* true.  A run of k negations inverts its operand iff k is odd.
C18_TestPrecedence ==
  Done =>
    /\ tpl \in TestTemplates => (~raised /\ <<tpl, out>> \in Expected)
    /\ TestDone(<<"t", " ", "|", "|", " ", "f", " ", "&", "&", " ", "f">>) => out = <<"t", "r", "u", "e">>
    /\ TestDone(<<"(", "t", " ", "|", "|", " ", "f", ")", " ", "&", "&", " ", "f">>) => out = <<"N">>
    /\ TestDone(<<"!", "f", " ", "&", "&", " ", "f">>) => out = <<"N">>
    /\ TestDone(<<"!", "(", "f", " ", "&", "&", " ", "f", ")">>) => out = <<"t", "r", "u", "e">>
    /\ TestDone(<<"!", "!", "t">>) => out = <<"t", "r", "u", "e">>
    /\ TestDone(<<"n", "o", "t", " ", "n", "o", "t", " ", "f">>) => out = <<"N">>
    /\ TestDone(<<"!", "n", "o", "t", " ", "f">>) => out = <<"N">>
    /\ TestDone(<<"!", "(", "t", " ", "|", "|", " ", "f", ")", " ", "|", "|", " ", "f", " ", "&", "&", " ", "t">>) => out = <<"N">>

\* {% if (t || f) && f %}: the parentheses made the disjunction an operand
\* of &&, and the else branch was rendered
C18_Witness ==
  /\ TestDone(<<"(", "t", " ", "|", "|", " ", "f", ")", " ", "&", "&", " ", "f">>)
  /\ heap[1][1].type = "if" /\ heap[1][1].test.type = "and"
  /\ out = <<"N">>

(***************************************************************************)
(* Comparisons: one conditional on L op R for every pair of the keys       *)
(* below and every operator.  Each operand is listed with the forms the    *)
(* coercions give it: its number (none for NaN), its string and    *)
(* its boolean.                                                            *)
(***************************************************************************)
\* { n1: 1, n2: 2, s2: '2', s10: '10', sa: 'a', e: '', t: true, f: false, z: null }; u is absent
CompareData ==
  <<Obj(<<Prop(<<"n", "1">>, Num(1)), Prop(<<"n", "2">>, Num(2)), Prop(<<"s", "2">>, Str(<<"2">>)),
          Prop(<<"s", "1", "0">>, Str(<<"1", "0">>)), Prop(<<"s", "a">>, Str(<<"a">>)), Prop(<<"e">>, Str(<<>>)),
          Prop(<<"t">>, Bool(TRUE)), Prop(<<"f">>, Bool(FALSE)), Prop(<<"z">>, Null)>>, <<>>)>>

\* num is <<>> for NaN and <<k>> for the number k
Operand(key, kind, num, str, bool) ==
  [key |-> key, kind |-> kind, num |-> num, str |-> str, bool |-> bool]

CompareOperands ==
  {Operand(<<"n", "1">>, "number", <<1>>, <<"1">>, TRUE), Operand(<<"n", "2">>, "number", <<2>>, <<"2">>, TRUE),
   Operand(<<"s", "2">>, "string", <<2>>, <<"2">>, TRUE), Operand(<<"s", "1", "0">>, "string", <<10>>, <<"1", "0">>, TRUE),
   Operand(<<"s", "a">>, "string", <<>>, <<"a">>, TRUE), Operand(<<"e">>, "string", <<0>>, <<>>, FALSE),
   Operand(<<"t">>, "boolean", <<1>>, <<"t", "r", "u", "e">>, TRUE), Operand(<<"f">>, "boolean", <<0>>, <<"f", "a", "l", "s", "e">>, FALSE),
   Operand(<<"z">>, "null", <<0>>, <<>>, FALSE), Operand(<<"u">>, "absent", <<>>, <<>>, FALSE)}

CompareOps == {<<"=", "=">>, <<"!", "=">>, <<">">>, <<"<">>, <<">", "=">>, <<"<", "=">>}

\* {% if l op r %}{{ t }}{% else %}N{% endif %}
CompareTemplate(l, op, r) == TestTemplate(l \o <<" ">> \o op \o <<" ">> \o r)

CompareTemplates ==
  {CompareTemplate(l.key, op, r.key) : l \in CompareOperands, op \in CompareOps, r \in CompareOperands}

InitCompare == InitWith(CompareTemplates \cup Templates(PlainPieces, MaxPieces), {CompareData})

SpecCompare == InitCompare /\ [][Next]_vars

\* l == r: coercion toward the type of the right operand
Equal(l, r) ==
  IF r.kind = "number" THEN l.num # <<>> /\ l.num = r.num
  ELSE IF r.kind = "boolean" THEN l.bool = r.bool
  ELSE IF r.kind = "null" THEN l.kind \in {"null", "absent"}
  ELSE l.str = r.str

\* l op r for a relational operator: numbers when both sides have one, the
\* string forms otherwise
Related(l, op, r) ==
  IF l.num # <<>> /\ r.num # <<>>
    THEN CASE op = <<">">> -> l.num[1] > r.num[1]
           [] op = <<"<">> -> l.num[1] < r.num[1]
           [] op = <<">", "=">> -> l.num[1] >= r.num[1]
           [] op = <<"<", "=">> -> l.num[1] <= r.num[1]
    ELSE CASE op = <<">">> -> StrLess(r.str, l.str)
           [] op = <<"<">> -> StrLess(l.str, r.str)
           [] op = <<">", "=">> -> ~StrLess(l.str, r.str)
           [] op = <<"<", "=">> -> ~StrLess(r.str, l.str)

Holds(l, op, r) ==
  IF op = <<"=", "=">> THEN Equal(l, r)
  ELSE IF op = <<"!", "=">> THEN ~Equal(l, r)
  ELSE Related(l, op, r)

\* the output of each comparison template under the stated rules
ComparedAsStated ==
  {<<CompareTemplate(l.key, op, r.key), IF Holds(l, op, r) THEN <<"t", "r", "u", "e">> ELSE <<"N">>>> :
     l \in CompareOperands, op \in CompareOps, r \in CompareOperands}

\* C19: compare evaluation matches the stated coercion rules for every pair
\* of operand values: == coerces toward the type of the right operand
\* (number: the number of the left, NaN unequal; boolean: the boolean of
\* the left; null: true iff the left is null or absent; otherwise the
\* string forms, absent and null as ''), != is its negation, and > < >= <=
\* compare numbers when both sides have one and the string forms otherwise.
C19_CompareCoercion ==
  (Done /\ data = CompareData /\ tpl \in CompareTemplates) =>
    (~raised /\ <<tpl, out>> \in ComparedAsStated)

(***************************************************************************)
(* Truthiness and emptiness: a conditional on a key and an interpolation   *)
(* of the key with a || fallback, for a key of every kind of value.        *)
(***************************************************************************)
\* { t: true, f: false, z: 0, one: 1, nan: NaN, e: '', s0: '0', n: null,
\*   l: [], l0: [0], r: {}, r0: { a: 0 }, rg: { get g() {..} },
\*   ri: Object.create({ p: 1 }) }; u is absent
TruthData ==
  <<Obj(<<Prop(<<"t">>, Bool(TRUE)), Prop(<<"f">>, Bool(FALSE)), Prop(<<"z">>, Num(0)),
          Prop(<<"o", "n", "e">>, Num(1)), Prop(<<"n", "a", "n">>, NaN), Prop(<<"e">>, Str(<<>>)),
          Prop(<<"s", "0">>, Str(<<"0">>)), Prop(<<"n">>, Null),
          Prop(<<"l">>, Arr(<<>>)), Prop(<<"l", "0">>, Arr(<<Num(0)>>)),
          Prop(<<"r">>, Obj(<<>>, <<>>)), Prop(<<"r", "0">>, Obj(<<Prop(<<"a">>, Num(0))>>, <<>>)),
          Prop(<<"r", "g">>, Obj(<<Getter(<<"g">>, Str(<<"G">>))>>, <<>>)),
          Prop(<<"r", "i">>, Obj(<<>>, <<Prop(<<"p">>, Num(1))>>))>>, <<>>)>>

\* kind is "array", "record" or "other"; size is the length of an array
\* and the number of own keys of a record; bool is the boolean coercion
Kept(key, kind, size, bool) == [key |-> key, kind |-> kind, size |-> size, bool |-> bool]

TruthOperands ==
  {Kept(<<"t">>, "other", 0, TRUE), Kept(<<"f">>, "other", 0, FALSE), Kept(<<"z">>, "other", 0, FALSE),
   Kept(<<"o", "n", "e">>, "other", 0, TRUE), Kept(<<"n", "a", "n">>, "other", 0, FALSE), Kept(<<"e">>, "other", 0, FALSE),
   Kept(<<"s", "0">>, "other", 0, TRUE), Kept(<<"n">>, "other", 0, FALSE), Kept(<<"u">>, "other", 0, FALSE),
   Kept(<<"l">>, "array", 0, TRUE), Kept(<<"l", "0">>, "array", 1, TRUE),
   Kept(<<"r">>, "record", 0, TRUE), Kept(<<"r", "0">>, "record", 1, TRUE), Kept(<<"r", "g">>, "record", 1, TRUE),
   Kept(<<"r", "i">>, "record", 0, TRUE)}

\* the keys of the values that are empty-ish: absent, null, '', [], {} and
\* the record without own keys
EmptyKeys == {<<"u">>, <<"n">>, <<"e">>, <<"l">>, <<"r">>, <<"r", "i">>}

\* truthy(v) as stated
StatedTruthy(o) == IF o.kind \in {"array", "record"} THEN o.size > 0 ELSE o.bool

\* {{ k || 'D' }}
OrTemplate(k) == <<"{", "{", " ">> \o k \o <<" ", "|", "|", " ", "'", "D", "'", " ", "}", "}">>

TruthTemplates == {TestTemplate(o.key) : o \in TruthOperands} \cup {OrTemplate(o.key) : o \in TruthOperands}

InitTruth == InitWith(TruthTemplates \cup Templates(PlainPieces, MaxPieces), {TruthData})

SpecTruth == InitTruth /\ [][Next]_vars

TruthDone == Done /\ data = TruthData

\* C20: truthiness and emptiness are two rules.  A conditional on a key
\* takes its first branch iff the value is a non-empty array, a record
\* with at least one own key, or another value that coerces to true; a ||
\* fallback replaces the value iff it is absent, null, '', an empty array
\* or an empty record.  An empty-ish value is never truthy, and 0 and false
\* are falsy in the conditional and kept by the fallback.
C20_TruthyAndEmptyish ==
  TruthDone =>
    /\ \A o \in TruthOperands :
         /\ tpl = TestTemplate(o.key) => out = (IF StatedTruthy(o) THEN <<"t", "r", "u", "e">> ELSE <<"N">>)
         /\ tpl = OrTemplate(o.key) => (out = <<"D">> <=> o.key \in EmptyKeys)
         /\ tplTruthy(tplResolveKey(data, o.key)) = StatedTruthy(o)
         /\ tplEmptyish(tplResolveKey(data, o.key)) = (o.key \in EmptyKeys)
         /\ tplEmptyish(tplResolveKey(data, o.key)) => ~tplTruthy(tplResolveKey(data, o.key))
    /\ tpl = TestTemplate(<<"z">>) => out = <<"N">>
    /\ tpl = TestTemplate(<<"f">>) => out = <<"N">>
    /\ tpl = OrTemplate(<<"z">>) => out = <<"0">>
    /\ tpl = OrTemplate(<<"f">>) => out = <<"f", "a", "l", "s", "e">>
    /\ ~raised

\* the conditional on the empty array took its else branch
C20_Witness ==
  /\ TruthDone
  /\ tpl = TestTemplate(<<"l">>)
  /\ out = <<"N">>

(***************************************************************************)
(* The interpolation markers: one interpolation of a string with HTML      *)
(* specials, between two letters, under each marker.                       *)
(***************************************************************************)
\* { x: '<em>&' }
MarkerData == <<Obj(<<Prop(<<"x">>, Str(<<"<", "e", "m", ">", "&">>))>>, <<>>)>>

\* A{{ x }}B, A{{= x }}B, A{{- x }}B
MarkerTemplate(marker) == <<"A", "{", "{">> \o marker \o <<" ", "x", " ", "}", "}", "B">>

Markers == {<<>>, <<"=">>, <<"-">>}

InitMarkers == InitWith({MarkerTemplate(m) : m \in Markers} \cup Templates(PlainPieces, MaxPieces), {MarkerData})

SpecMarkers == InitMarkers /\ [][Next]_vars

\* the output around the string form str of x
Around(str) == <<"A">> \o str \o <<"B">>

\* C21: {{= x }} renders x HTML-escaped, exactly as {{ x }} does, and
\* {{- x }} renders x as it is.
C21_MarkersAsDocumented ==
  (Done /\ data = MarkerData) =>
    /\ tpl = MarkerTemplate(<<>>) => out = Around(escapeHtml(<<"<", "e", "m", ">", "&">>))
    /\ tpl = MarkerTemplate(<<"=">>) => out = Around(escapeHtml(<<"<", "e", "m", ">", "&">>))
    /\ tpl = MarkerTemplate(<<"-">>) => out = Around(<<"<", "e", "m", ">", "&">>)

(***************************************************************************)
(* Malformed tests: a conditional on a test string from which no           *)
(* expression can be parsed, against data without and with the key ''.     *)
(***************************************************************************)
\* { '': 'k', t: true, f: false }
EmptyKeyData == <<Obj(<<Prop(<<>>, Str(<<"k">>)), Prop(<<"t">>, Bool(TRUE)), Prop(<<"f">>, Bool(FALSE))>>, <<>>)>>

\* no recognizable token, a stray operator or parenthesis, a comparison
\* operator without its right operand
MalformedTests == {<<"#">>, <<")">>, <<"(">>, <<"(", ")">>, <<"&", "&">>, <<"|", "|">>, <<"=", "=">>, <<"!">>, <<"n", "o", "t">>, <<"t", " ", "=", "=">>, <<"t", " ", "=", "=", " ", ")">>, <<"1", " ", "<">>}

MalformedTemplates == {TestTemplate(e) : e \in MalformedTests}

InitMalformed == InitWith(MalformedTemplates \cup Templates(PlainPieces, MaxPieces), {TestData, EmptyKeyData})

SpecMalformed == InitMalformed /\ [][Next]_vars

\* C22: tplParseTest never raises, and a test string from which no
\* expression can be parsed yields a test that is false against every
\* scope stack: the branch it guards is never rendered.
C22_MalformedTestIsFalse ==
  (Done /\ tpl \in MalformedTemplates) =>
    /\ ~raised
    /\ out = <<"N">>
    /\ \A e \in MalformedTests : ~evalTest(tplParseTest(e), data).b

(***************************************************************************)
(* Scope resolution: one interpolation of a key or dot-path against        *)
(* stacks of one to three frames in which the frames disagree.             *)
(***************************************************************************)
\* { a: { b: 'OB', c: 'OC' }, o: 'O', g: { b: 'GB' } }
OuterFrame ==
  Obj(<<Prop(<<"a">>, Obj(<<Prop(<<"b">>, Str(<<"O", "B">>)), Prop(<<"c">>, Str(<<"O", "C">>))>>, <<>>)),
        Prop(<<"o">>, Str(<<"O">>)),
        Prop(<<"g">>, Obj(<<Prop(<<"b">>, Str(<<"G", "B">>))>>, <<>>))>>, <<>>)

\* { a: { b: 'IB' }, get g() { .. } }
MiddleFrame == Obj(<<Prop(<<"a">>, Obj(<<Prop(<<"b">>, Str(<<"I", "B">>))>>, <<>>)), Getter(<<"g">>, Str(<<"G">>))>>, <<>>)

\* { a: 'S' }
LeafFrame == Obj(<<Prop(<<"a">>, Str(<<"S">>))>>, <<>>)

ScopeStacks == {<<>>, <<OuterFrame>>, <<OuterFrame, MiddleFrame>>, <<OuterFrame, MiddleFrame, LeafFrame>>}

ScopeKeys == {<<"a", ".", "b">>, <<"a", ".", "c">>, <<"o">>, <<"z">>, <<"z", ".", "b">>, <<"g", ".", "b">>}

ScopeTemplates == {EscapedToken(k) : k \in ScopeKeys}

InitScopes == InitWith(ScopeTemplates \cup Templates(PlainPieces, MaxPieces), ScopeStacks)

SpecScopes == InitScopes /\ [][Next]_vars

\* the frames that provide the segment seg as an own data property
Providing(scopes, seg) ==
  {i \in 1..Len(scopes) : \E j \in 1..Len(scopes[i].props) : scopes[i].props[j].k = seg /\ ~scopes[i].props[j].acc}

Innermost(frames) == CHOOSE i \in frames : \A j \in frames : j <= i

\* the value of the own data property seg of the frame
ProvidedBy(frame, seg) == frame.props[CHOOSE j \in 1..Len(frame.props) : frame.props[j].k = seg].v

\* what each key renders to against each stack when the frame is picked by
\* the first segment and the rest is resolved inside it
ResolvedAsStated ==
  {<<s, EscapedToken(k), <<>>>> : s \in {<<>>}, k \in ScopeKeys}
  \cup {<<s, EscapedToken(<<"z">>), <<>>>> : s \in ScopeStacks}
  \cup {<<s, EscapedToken(<<"z", ".", "b">>), <<>>>> : s \in ScopeStacks}
  \cup {<<s, EscapedToken(<<"o">>), <<"O">>>> : s \in ScopeStacks \ {<<>>}}
  \cup {<<s, EscapedToken(<<"g", ".", "b">>), <<"G", "B">>>> : s \in ScopeStacks \ {<<>>}}
  \cup {<<<<OuterFrame>>, EscapedToken(<<"a", ".", "b">>), <<"O", "B">>>>,
        <<<<OuterFrame>>, EscapedToken(<<"a", ".", "c">>), <<"O", "C">>>>,
        <<<<OuterFrame, MiddleFrame>>, EscapedToken(<<"a", ".", "b">>), <<"I", "B">>>>,
        <<<<OuterFrame, MiddleFrame>>, EscapedToken(<<"a", ".", "c">>), <<>>>>,
        <<<<OuterFrame, MiddleFrame, LeafFrame>>, EscapedToken(<<"a", ".", "b">>), <<>>>>,
        <<<<OuterFrame, MiddleFrame, LeafFrame>>, EscapedToken(<<"a", ".", "c">>), <<>>>>}

\* C23: the frame is picked by the first path segment only.  The value of
\* a key is the rest of the path resolved inside the value that the
\* innermost frame with the first segment gives it, absent when a later
\* segment is missing there although an outer frame has the whole path,
\* and absent when no frame has the first segment.
C23_FrameByFirstSegment ==
  (Done /\ tpl \in ScopeTemplates) =>
    /\ ~raised
    /\ <<data, tpl, out>> \in ResolvedAsStated
    /\ \A k \in ScopeKeys :
         LET parts == SplitDots(k, <<>>)
             frames == Providing(data, parts[1])
         IN tplResolveKey(data, k) =
              IF frames = {} THEN Undef
              ELSE tplResolveFrom(ProvidedBy(data[Innermost(frames)], parts[1]), Tail(parts))

\* {{ a.c }}: the middle frame has a but not a.c, and the outer frame's a.c
\* was not used
C23_Witness ==
  /\ Done
  /\ data = <<OuterFrame, MiddleFrame>>
  /\ tpl = EscapedToken(<<"a", ".", "c">>)
  /\ tplResolveKey(<<OuterFrame>>, <<"a", ".", "c">>) = Str(<<"O", "C">>)
  /\ out = <<>>

(***************************************************************************)
(* Reserved words of the test tokenizer in several letter cases, against   *)
(* data in which every one of them is also a key.                          *)
(***************************************************************************)
NotWords == {<<"n", "o", "t">>, <<"N", "o", "t">>, <<"N", "O", "T">>, <<"n", "O", "t">>}

TrueWords == {<<"t", "r", "u", "e">>, <<"T", "r", "u", "e">>, <<"T", "R", "U", "E">>}

FalseWords == {<<"f", "a", "l", "s", "e">>, <<"F", "a", "l", "s", "e">>, <<"F", "A", "L", "S", "E">>}

NullWords == {<<"n", "u", "l", "l">>, <<"N", "u", "l", "l">>, <<"N", "U", "L", "L">>}

\* every reserved word is a key whose truthiness is the opposite of the
\* literal's; the casings of not are truthy keys; t is true and f is false
WordData ==
  <<Obj(<<Prop(<<"t">>, Bool(TRUE)), Prop(<<"f">>, Bool(FALSE)),
          Prop(<<"t", "r", "u", "e">>, Bool(FALSE)), Prop(<<"T", "r", "u", "e">>, Bool(FALSE)), Prop(<<"T", "R", "U", "E">>, Bool(FALSE)),
          Prop(<<"f", "a", "l", "s", "e">>, Bool(TRUE)), Prop(<<"F", "a", "l", "s", "e">>, Bool(TRUE)), Prop(<<"F", "A", "L", "S", "E">>, Bool(TRUE)),
          Prop(<<"n", "u", "l", "l">>, Bool(TRUE)), Prop(<<"N", "u", "l", "l">>, Bool(TRUE)), Prop(<<"N", "U", "L", "L">>, Bool(TRUE)),
          Prop(<<"n", "o", "t">>, Bool(TRUE)), Prop(<<"N", "o", "t">>, Bool(TRUE)), Prop(<<"N", "O", "T">>, Bool(TRUE)),
          Prop(<<"n", "O", "t">>, Bool(TRUE)), Prop(<<"n", "o", "t", "h", "i", "n", "g">>, Bool(TRUE))>>, <<>>)>>

\* [text, val]: the test and the boolean it denotes when the words are read
\* in any letter case
WordTests ==
  {[text |-> n \o <<" ", "f">>, val |-> TRUE] : n \in NotWords}
  \cup {[text |-> n \o <<" ", "t">>, val |-> FALSE] : n \in NotWords}
  \cup {[text |-> w, val |-> TRUE] : w \in TrueWords}
  \cup {[text |-> w, val |-> FALSE] : w \in FalseWords \cup NullWords}
  \cup {[text |-> <<"n", "o", "t", "h", "i", "n", "g">>, val |-> TRUE]}

WordTemplates == {TestTemplate(e.text) : e \in WordTests}

WordsAsStated == {<<TestTemplate(e.text), IF e.val THEN <<"t", "r", "u", "e">> ELSE <<"N">>>> : e \in WordTests}

InitWords == InitWith(WordTemplates \cup Templates(PlainPieces, MaxPieces), {WordData})

SpecWords == InitWords /\ [][Next]_vars

\* C24: the word not in any letter case, followed by a word boundary, is a
\* negation token, and true, false and null in any letter case are literal
\* tokens, never keys: a conditional on such a test takes the branch the
\* negation or the literal selects whatever the data holds under the word.
C24_WordsInAnyCase ==
  (Done /\ data = WordData /\ tpl \in WordTemplates) =>
    /\ ~raised
    /\ <<tpl, out>> \in WordsAsStated
    /\ \A n \in NotWords : TestTokenize(n \o <<" ", "f">>, 0, <<>>)[1].t = "not"
    /\ \A w \in TrueWords \cup FalseWords \cup NullWords : TestTokenize(w, 0, <<>>)[1].t = "lit"
    /\ TestTokenize(<<"n", "o", "t", "h", "i", "n", "g">>, 0, <<>>)[1].t = "key"

(***************************************************************************)
(* A parenthesized sub-expression before a comparison operator: one        *)
(* conditional on (X) op R for sub-expressions X that are a single key or  *)
(* literal and for compound ones.                                          *)
(***************************************************************************)
\* { a: 2, b: 0, t: true }
GroupData == <<Obj(<<Prop(<<"a">>, Num(2)), Prop(<<"b">>, Num(0)), Prop(<<"t">>, Bool(TRUE))>>, <<>>)>>

\* [text, val, single, num]: the sub-expression, its truthiness, whether it
\* is one key or literal (possibly in parentheses of its own) and then the
\* number it denotes
GroupExprs ==
  {[text |-> <<"a">>, val |-> TRUE, single |-> TRUE, num |-> 2],
   [text |-> <<"b">>, val |-> FALSE, single |-> TRUE, num |-> 0],
   [text |-> <<"1">>, val |-> TRUE, single |-> TRUE, num |-> 1],
   [text |-> <<"(", "a", ")">>, val |-> TRUE, single |-> TRUE, num |-> 2],
   [text |-> <<"a", " ", "&", "&", " ", "b">>, val |-> FALSE, single |-> FALSE, num |-> 0],
   [text |-> <<"a", " ", "|", "|", " ", "b">>, val |-> TRUE, single |-> FALSE, num |-> 0],
   [text |-> <<"!", "a">>, val |-> FALSE, single |-> FALSE, num |-> 0],
   [text |-> <<"n", "o", "t", " ", "b">>, val |-> TRUE, single |-> FALSE, num |-> 0],
   [text |-> <<"a", " ", "=", "=", " ", "2">>, val |-> TRUE, single |-> FALSE, num |-> 0],
   [text |-> <<"b", " ", ">", " ", "1">>, val |-> FALSE, single |-> FALSE, num |-> 0]}

GroupOps == {<<"=", "=">>, <<"!", "=">>, <<"<">>, <<">", "=">>}

\* [text, num]: the right operands, a literal and a key
GroupRights == {[text |-> <<"1">>, num |-> 1], [text |-> <<"a">>, num |-> 2]}

\* (X) op R
GroupTest(x, op, r) == <<"(">> \o x \o <<")", " ">> \o op \o <<" ">> \o r

GroupTemplates == {TestTemplate(GroupTest(x.text, op, r.text)) : x \in GroupExprs, op \in GroupOps, r \in GroupRights}

InitGroups == InitWith(GroupTemplates \cup Templates(PlainPieces, MaxPieces), {GroupData})

SpecGroups == InitGroups /\ [][Next]_vars

\* l op r on numbers
NumbersRelated(l, op, r) ==
  CASE op = <<"=", "=">> -> l = r
    [] op = <<"!", "=">> -> l # r
    [] op = <<"<">> -> l < r
    [] op = <<">", "=">> -> l >= r

Shown(b) == IF b THEN <<"t", "r", "u", "e">> ELSE <<"N">>

\* the operator and its right operand have no effect
GroupsUncompared ==
  {<<TestTemplate(GroupTest(x.text, op, r.text)), tplParseTest(<<"(">> \o x.text \o <<")">>), Shown(x.val)>> :
     x \in GroupExprs, op \in GroupOps, r \in GroupRights}

\* a single key or literal is compared, a compound sub-expression is not
GroupsComparedWhenSingle ==
  {<<TestTemplate(GroupTest(x.text, op, r.text)),
     IF x.single THEN tplParseTest(Trim(ReplaceAll(ReplaceAll(x.text, <<"(">>, <<>>), <<")">>, <<>>)) \o <<" ">> \o op \o <<" ">> \o r.text)
                 ELSE tplParseTest(<<"(">> \o x.text \o <<")">>),
     Shown(IF x.single THEN NumbersRelated(x.num, op, r.num) ELSE x.val)>> :
     x \in GroupExprs, op \in GroupOps, r \in GroupRights}

GroupDone == Done /\ data = GroupData /\ tpl \in GroupTemplates

\* The statement of C25 as it was made: for every parenthesized
\* sub-expression, a single key or literal included, the test parsed from
\* (X) op R is the test of (X) and the conditional follows the truthiness
\* of X.
C25_GroupNeverCompared ==
  GroupDone => (~raised /\ <<tpl, heap[1][1].test, out>> \in GroupsUncompared)

\* C25 (amended): when a parenthesized sub-expression is followed by a
\* comparison operator and an operand, the operator and its right operand
\* have no effect if the sub-expression is a negation, a conjunction, a
\* disjunction or a comparison; if it is a single key or literal, as in
\* (a) == 1, the test is the comparison of that key or literal with the
\* right operand, as it is without the parentheses.
C25_OnlyCompoundGroupUncompared ==
  GroupDone => (~raised /\ <<tpl, heap[1][1].test, out>> \in GroupsComparedWhenSingle)

\* {% if (a) == 1 %} with a = 2: the test is a comparison and it is false
C25_Witness ==
  /\ GroupDone
  /\ tpl = TestTemplate(GroupTest(<<"a">>, <<"=", "=">>, <<"1">>))
  /\ heap[1][1].test.type = "compare"
  /\ out = <<"N">>

(***************************************************************************)
(* Fallback chains with an unparsable right-hand token: one interpolation  *)
(* with one or two links of which at least one is bad, with and without    *)
(* the raw marker and a filter.                                            *)
(***************************************************************************)
\* { a: '', s: '<s>', b: 'B' }
DiscardData == <<Obj(<<Prop(<<"a">>, Str(<<>>)), Prop(<<"s">>, Str(<<"<", "s", ">">>)), Prop(<<"b">>, Str(<<"B">>))>>, <<>>)>>

GoodRights == {<<"'", "x", "'">>, <<"b">>}

\* neither a quoted string, a number, a boolean, null nor a dot-path
BadRights == {<<"f", "n", "(", ")">>, <<"1", "x">>, <<"a", "-", "b">>}

ChainOps == {<<"|", "|">>, <<"?", "?">>}

\* the chains of one or two links with a bad right-hand token
BadChains ==
  {<<" ">> \o op \o <<" ">> \o r : op \in ChainOps, r \in BadRights}
  \cup {<<" ">> \o o1 \o <<" ">> \o r1 \o <<" ">> \o o2 \o <<" ">> \o r2 :
          o1 \in ChainOps, o2 \in ChainOps,
          r1 \in GoodRights \cup BadRights, r2 \in BadRights}
  \cup {<<" ">> \o o1 \o <<" ">> \o r1 \o <<" ">> \o o2 \o <<" ">> \o r2 :
          o1 \in ChainOps, o2 \in ChainOps,
          r1 \in BadRights, r2 \in GoodRights}

\* [text, out]: the left key under a marker, and what the bare key renders to
DiscardLefts ==
  {[text |-> <<" ", "a">>, mode |-> "escape", key |-> <<"a">>, out |-> <<>>, upper |-> <<>>],
   [text |-> <<"=", " ", "a">>, mode |-> "raw", key |-> <<"a">>, out |-> <<>>, upper |-> <<>>],
   [text |-> <<" ", "s">>, mode |-> "escape", key |-> <<"s">>, out |-> <<"&", "l", "t", ";", "s", "&", "g", "t", ";">>, upper |-> <<"&", "l", "t", ";", "S", "&", "g", "t", ";">>],
   [text |-> <<"=", " ", "s">>, mode |-> "raw", key |-> <<"s">>, out |-> <<"<", "s", ">">>, upper |-> <<"<", "S", ">">>]}

\* {{ left chain }} and {{ left chain | upper }}
DiscardTemplate(l, c, filtered) ==
  <<"{", "{">> \o l \o c \o (IF filtered THEN <<" ", "|", " ", "u", "p", "p", "e", "r", " ", "}", "}">> ELSE <<" ", "}", "}">>)

DiscardTemplates == {DiscardTemplate(l.text, c, f) : l \in DiscardLefts, c \in BadChains, f \in BOOLEAN}

\* each template with the node and the output of the bare left key under
\* the same marker and filter
DiscardedAsStated ==
  {<<DiscardTemplate(l.text, c, f),
     [type |-> "interp", key |-> l.key, mode |-> l.mode, fallbackChain |-> <<>>,
      filters |-> IF f THEN <<[name |-> <<"u", "p", "p", "e", "r">>, hasArgs |-> FALSE, args |-> <<>>]>> ELSE <<>>],
     IF f THEN l.upper ELSE l.out>> :
     l \in DiscardLefts, c \in BadChains, f \in BOOLEAN}

InitDiscard == InitWith(DiscardTemplates \cup Templates(PlainPieces, MaxPieces), {DiscardData})

SpecDiscard == InitDiscard /\ [][Next]_vars

DiscardDone == Done /\ data = DiscardData /\ tpl \in DiscardTemplates

\* C26: when a right-hand token of a fallback chain is not a quoted
\* string, number, boolean, null or dot-path, the whole chain is dropped,
\* the links before the bad one included, and the interpolation is still a
\* node: it renders the bare left key under its marker and filters.
C26_BadLinkDiscardsChain ==
  DiscardDone =>
    /\ ~raised
    /\ Len(heap[1]) = 1
    /\ <<tpl, heap[1][1], out>> \in DiscardedAsStated

\* {{ a || 'x' ?? fn() }} with a = '': the good first link went with the
\* bad second one, and nothing was printed
C26_Witness ==
  /\ DiscardDone
  /\ tpl = DiscardTemplate(<<" ", "a">>, <<" ", "|", "|", " ", "'", "x", "'", " ", "?", "?", " ", "f", "n", "(", ")">>, FALSE)
  /\ heap[1][1].type = "interp"
  /\ heap[1][1].fallbackChain = <<>>
  /\ out = <<>>

(***************************************************************************)
(* Filter calls whose quoted argument holds a | character.                 *)
(***************************************************************************)
\* { v: 'a|b' }
BarData == <<Obj(<<Prop(<<"v">>, Str(<<"a", "|", "b">>))>>, <<>>)>>

\* replace with the arguments '|' and 'x'
ReplaceBar == [name |-> <<"r", "e", "p", "l", "a", "c", "e">>, hasArgs |-> TRUE, args |-> <<Str(<<"|">>), Str(<<"x">>)>>]

UpperCall == [name |-> <<"u", "p", "p", "e", "r">>, hasArgs |-> FALSE, args |-> <<>>]

\* [tpl, filters, out]: the filters segment split at the | characters
\* outside quotes, and the output of the calls on 'a|b'
BarCases ==
  {<<<<"{", "{", " ", "v", " ", "|", " ", "r", "e", "p", "l", "a", "c", "e", "(", "'", "|", "'", ",", " ", "'", "x", "'", ")", " ", "}", "}">>, <<ReplaceBar>>, <<"a", "x", "b">>>>,
   <<<<"{", "{", " ", "v", " ", "|", " ", "r", "e", "p", "l", "a", "c", "e", "(", "\"", "|", "\"", ",", " ", "\"", "x", "\"", ")", " ", "}", "}">>, <<ReplaceBar>>, <<"a", "x", "b">>>>,
   <<<<"{", "{", " ", "v", " ", "|", " ", "r", "e", "p", "l", "a", "c", "e", "(", "'", "|", "'", ",", " ", "'", "x", "'", ")", " ", "|", " ", "u", "p", "p", "e", "r", " ", "}", "}">>, <<ReplaceBar, UpperCall>>, <<"A", "X", "B">>>>,
   <<<<"{", "{", " ", "v", " ", "|", " ", "u", "p", "p", "e", "r", " ", "|", " ", "r", "e", "p", "l", "a", "c", "e", "(", "'", "|", "'", ",", " ", "'", "x", "'", ")", " ", "}", "}">>, <<UpperCall, ReplaceBar>>, <<"A", "X", "B">>>>,
   <<<<"{", "{", " ", "v", " ", "|", " ", "u", "p", "p", "e", "r", " ", "}", "}">>, <<UpperCall>>, <<"A", "|", "B">>>>}

BarTemplates == {c[1] : c \in BarCases}

InitBars == InitWith(BarTemplates \cup Templates(PlainPieces, MaxPieces), {BarData})

SpecBars == InitBars /\ [][Next]_vars

\* C27: the filters segment is split into calls only at the | characters
\* outside quotes, so {{ v | replace('|', 'x') }} is the single call
\* replace with the arguments '|' and 'x', and it replaces the | of v.
C27_QuotedBarInsideCall ==
  (Done /\ data = BarData /\ tpl \in BarTemplates) =>
    /\ ~raised
    /\ Len(heap[1]) = 1
    /\ heap[1][1].type = "interp"
    /\ <<tpl, heap[1][1].filters, out>> \in BarCases

(***************************************************************************)
(* Loops over list expressions and loop variables inside and outside the   *)
(* grammar: {% each L as V %}..{% endeach %}.                              *)
(***************************************************************************)
\* { xs: ['1'], o: { p: ['2'] } }
ListData ==
  <<Obj(<<Prop(<<"x", "s">>, Arr(<<Str(<<"1">>)>>)),
          Prop(<<"o">>, Obj(<<Prop(<<"p">>, Arr(<<Str(<<"2">>)>>))>>, <<>>))>>, <<>>)>>

\* list expressions that match [A-Za-z_][\w.]*
GoodLists == {<<"x", "s">>, <<"o", ".", "p">>, <<"_", "n", "1">>}

BadLists == {<<"f", "n", "(", ")">>, <<"'", "q", "'">>, <<"1", "x">>, <<"a", "-", "b">>, <<"a", " ", "a", "s", " ", "b">>}

\* loop variables that match [A-Za-z_]\w*
GoodVars == {<<"x">>, <<"x", ",", " ", "i">>}

BadVars == {<<"1", "x">>, <<"x", ".", "y">>, <<"x", ",", " ", "2">>}

EachTemplate(l, v, body) == <<"{", "%", " ", "e", "a", "c", "h", " ">> \o l \o <<" ", "a", "s", " ">> \o v \o <<" ", "%", "}">> \o body \o <<"{", "%", " ", "e", "n", "d", "e", "a", "c", "h", " ", "%", "}">>

\* the loops within the grammar print their variable
WellFormedEach == {EachTemplate(l, v, <<"{", "{", " ", "x", " ", "}", "}">>) : l \in GoodLists, v \in GoodVars}

IllFormedEach ==
  {EachTemplate(l, v, <<"A">>) : l \in BadLists, v \in GoodVars}
  \cup {EachTemplate(l, v, <<"A">>) : l \in GoodLists, v \in BadVars}

InitLists == InitWith(WellFormedEach \cup IllFormedEach \cup Templates(PlainPieces, MaxPieces), {ListData})

SpecLists == InitLists /\ [][Next]_vars

\* the control token at the head of the template was handled
EachRead == pc = "parse" /\ idx > 0

\* C28: an each token opens a loop frame only when its list expression
\* matches [A-Za-z_][\w.]* and its loop variables match [A-Za-z_]\w*.  For
\* any other list expression or variable the token is kept as literal text
\* and no frame is opened, so the template renders as its own source.
C28_EachOpensOnlyOnGrammar ==
  /\ (EachRead /\ tpl \in IllFormedEach) =>
       (controlStack = <<>> /\ \A n \in HeapNodes : n.type = "text")
  /\ (EachRead /\ tpl \in WellFormedEach /\ controlStack # <<>>) => Top(controlStack).kind = "each"
  /\ (Done /\ tpl \in IllFormedEach) => (~raised /\ out = tpl)
  /\ (Done /\ tpl \in WellFormedEach) => (~raised /\ heap[1][1].type = "each")

(***************************************************************************)
(* Termination of the two scans: templates made of openers, closers, trim  *)
(* markers and the characters the test tokenizer tells apart, in any       *)
(* order.                                                                  *)
(***************************************************************************)
MaxScan == 3

ScanPieces ==
  <<
    <<"{", "{">>, <<"}", "}">>, <<"{", "%">>, <<"%", "}">>, <<"{", "#">>, <<"#", "}">>, <<"-">>, <<"~">>, <<"a">>, <<"\n">>,
    <<"{", "%", " ", "i", "f", " ">>, <<"'", "\\">>, <<"n", "o", "t", "(">>, <<"!", "=">>, <<"@", "1", ".">>, <<"\"", "x">>
  >>

InitScan == InitWith(Templates(ScanPieces, MaxScan), {TokenData})

SpecScan == InitScan /\ [][Next]_vars

\* the text the test tokenizer is given when the token at the cursor is a
\* conditional; any text between an opener and its closer otherwise
ScannedTest ==
  IF Scanning /\ reToken(tpl, idx) # -1 /\ Token(tpl, idx).end # -1 THEN Token(tpl, idx).inner ELSE <<>>

\* every iteration of the tokenizer loop on src moves its cursor forward
TokenizerAdvances(src) ==
  \A i \in 0..(Len(src) - 1) : TestTokStep(src, i).i > i /\ TestTokStep(src, i).i <= Len(src)

\* C29: parsing terminates.  Every iteration of the scan loop of tplParse
\* either leaves the loop or ends with the cursor idx strictly greater
\* than before and not beyond the end of the template, and every iteration
\* of the tokenizer loop of tplParseTest strictly increases i, the path of
\* an unknown character included.
C29_ScansAdvance ==
  [][/\ pc = "parse" => (pc' = "parsed" \/ (idx' > idx /\ idx' <= Len(tpl)))
     /\ TokenizerAdvances(ScannedTest)]_vars

\* {% if @1.%}: the tokenizer skipped the unknown character and the scan
\* reached the end of the template
C29_Witness ==
  /\ tpl = <<"{", "%", " ", "i", "f", " ", "@", "1", ".", "%", "}">>
  /\ pc = "parse"
  /\ idx = Len(tpl)
  /\ controlStack # <<>>
  /\ Top(controlStack).node.test.type = "truthy-literal"

(***************************************************************************)
(* The operators of a fallback chain: one interpolation per expression,    *)
(* with the operators that stand unquoted in it, in source order.          *)
(***************************************************************************)
\* { a: '', b: 'B' }
LinkData == <<Obj(<<Prop(<<"a">>, Str(<<>>)), Prop(<<"b">>, Str(<<"B">>))>>, <<>>)>>

\* [expr, ops]: every operand between two operators present, then an empty
\* operand between two operators, then an operator at the start
LinkCases ==
  {[expr |-> <<"a", " ", "|", "|", " ", "'", "x", "'">>, ops |-> <<"or">>],
   [expr |-> <<"a", " ", "?", "?", " ", "'", "x", "'">>, ops |-> <<"nullish">>],
   [expr |-> <<"a", " ", "|", "|", " ", "b", " ", "?", "?", " ", "'", "x", "'">>, ops |-> <<"or", "nullish">>],
   [expr |-> <<"a", " ", "?", "?", " ", "b", " ", "|", "|", " ", "'", "x", "'">>, ops |-> <<"nullish", "or">>],
   [expr |-> <<"a", " ", "?", "?", " ", "'", "p", "|", "|", "q", "'", " ", "|", "|", " ", "'", "x", "'">>, ops |-> <<"nullish", "or">>],
   [expr |-> <<"a", " ", "|", "|", " ", "?", "?", " ", "'", "x", "'">>, ops |-> <<"or", "nullish">>],
   [expr |-> <<"a", " ", "?", "?", " ", "|", "|", " ", "'", "x", "'">>, ops |-> <<"nullish", "or">>],
   [expr |-> <<"?", "?", " ", "a", " ", "|", "|", " ", "'", "x", "'">>, ops |-> <<"nullish", "or">>],
   [expr |-> <<"|", "|", " ", "a", " ", "?", "?", " ", "'", "x", "'">>, ops |-> <<"or", "nullish">>]}

LinkTemplates == {EscapedToken(c.expr) : c \in LinkCases}

InitLinks == InitWith(LinkTemplates \cup Templates(PlainPieces, MaxPieces), {LinkData})

SpecLinks == InitLinks /\ [][Next]_vars

\* the operators of the links of a chain, in order
OpsOf(chain) == [i \in 1..Len(chain) |-> chain[i].op]

\* C30: in every parsed fallback chain, link i carries the operator that
\* stands in the source directly before its right operand, and the chain
\* has as many links as the expression has unquoted || and ?? operators,
\* also when an operand between two operators is empty and when the
\* expression starts with an operator.
C30_LinkOperatorsInSourceOrder ==
  (Done /\ data = LinkData) =>
    \A c \in LinkCases :
      tpl = EscapedToken(c.expr) =>
        /\ ~raised
        /\ Len(heap[1]) = 1
        /\ heap[1][1].type = "interp"
        /\ Len(heap[1][1].fallbackChain) = Len(c.ops)
        /\ OpsOf(heap[1][1].fallbackChain) = c.ops

====
